---- MODULE Spec2Model ----
(***************************************************************************)
(* A model of the bareClient protocol engine: the HttpClient orchestrator, *)
(* the Requester (body adapter, request/response conversation), the        *)
(* HTTP/1.1 engine (H11Protocol) and the HTTP/2 engine (H2Protocol), all   *)
(* running as cooperative coroutines over one asyncio event loop, against  *)
(* a peer that is free to answer, stall, or close the connection.          *)
(*                                                                         *)
(* Python values are encoded as follows: a body chunk is its length (a     *)
(* natural number, 0 for b''), None for a chunk is NoneBody, None for a    *)
(* stream id is NoneStream.                                                *)
(***************************************************************************)
EXTENDS Integers, Sequences, FiniteSets, TLC

\* ------------------------------------------------------------------ bounds

\* The longest request body, in chunks, the user's iterator produces.
MaxChunks == 2

\* The largest chunk length of a request body (0 is the empty chunk b'').
MaxChunkLen == 2

\* The most DATA units the peer sends in one response body.
MaxData == 2

\* The most requests made over one engine (sequential reuse of a connection).
MaxRequests == 2

\* The most times user code suspends (awaits something of its own).
MaxUserAwaits == 1

\* The HTTP/2 flow-control window a stream and the connection start with
\* (65535 in h2), and the largest DATA frame the peer accepts (16384 in h2),
\* scaled to the chunk lengths of the model.
InitialWindow == 1
MaxFrameSize == 1

\* The most WINDOW_UPDATE frames the peer sends.
MaxWindowUpdates == 2

\* The latest time of a request or response, and the most set-cookie
\* headers a session sees, in the model of the session middleware.
MaxTime == 2
MaxCookies == 2

\* The most requests a session prepares (cookie headers it gathers).
MaxGathers == 1

\* the longest list of middlewares a request is processed with
MaxMiddlewares == 2

\* the longest list of headers a request is made with
MaxHeaders == 2

\* the most encodings a content-encoding header lists
MaxEncodings == 2

\* the tasks that wait on one event, and the times the event is set
MaxWaiters == 3
MaxSets == 2

\* ------------------------------------------------------------------ values

NoneBody == -1
NoneStream == 0

SeqsUpTo(S, n) == UNION {[1..k -> S] : k \in 0..n}

Min2(a, b) == IF a <= b THEN a ELSE b

\* The user's request bodies: no body at all (NoContent), or a finite
\* single-pass sequence of chunks.
NoContent == <<NoneBody>>
AllContents == {NoContent} \cup SeqsUpTo(0..MaxChunkLen, MaxChunks)

\* The bodies requests are made with against an engine: no body, the empty
\* body, one empty chunk, and for each length the body whose k-th chunk has
\* k bytes (so that no two chunks of a body are equal).
Contents ==
    {NoContent, <<0>>} \cup {[i \in 1..k |-> i] : k \in 0..MaxChunks}

\* the requests that run at the same time on one engine or one session
Requesters == 1..MaxRequests

\* ------------------------------------------------------- engine messages
\* src/bareclient/types.py: the tagged message dictionaries.

Msg(t, sid, more, body) ==
    [type |-> t, stream_id |-> sid, more_body |-> more, body |-> body,
     http_version |-> "-"]

HttpRequest(body, more) == Msg("http.request", NoneStream, more, body)
HttpRequestBody(body, more, sid) == Msg("http.request.body", sid, more, body)
HttpDisconnect(sid) == Msg("http.disconnect", sid, FALSE, NoneBody)
HttpResponseConnection(hv, sid) ==
    [Msg("http.response.connection", sid, FALSE, NoneBody)
        EXCEPT !.http_version = hv]
HttpResponse(hv, more, sid) ==
    [Msg("http.response", sid, more, NoneBody) EXCEPT !.http_version = hv]
HttpResponseBody(body, more, sid) == Msg("http.response.body", sid, more, body)
NoMsg == Msg("none", NoneStream, FALSE, NoneBody)

\* ---------------------------------------------------------- body adapter
\* _make_body_writer is an async generator.  Its state between two resumes
\* is the yield it is suspended at (st), its locals first, second and
\* more_body, and how many chunks it has taken from the user's iterator.

BodyWriterInit ==
    [st |-> "start", first |-> NoneBody, second |-> NoneBody,
     more_body |-> TRUE, pos |-> 0]

StopAsyncIteration == [stop |-> TRUE, body |-> NoneBody, more_body |-> FALSE]
Yield(body, more) == [stop |-> FALSE, body |-> body, more_body |-> more]

\* One pass of `while more_body:` up to its yield (lines 70-77), entered
\* with the locals of g.
body_writer_loop(g, content) ==
    IF ~g.more_body
    THEN [gen |-> [g EXCEPT !.st = "done"], out |-> StopAsyncIteration]
    ELSE IF g.pos < Len(content)
         THEN [gen |-> [g EXCEPT !.st = "loop",
                                 !.second = content[g.pos + 1],
                                 !.pos = g.pos + 1],
               out |-> Yield(g.first, TRUE)]
         ELSE [gen |-> [g EXCEPT !.st = "loop",
                                 !.second = NoneBody,
                                 !.more_body = FALSE],
               out |-> Yield(g.first, FALSE)]

\* Not the code: the flag yielded is the one from before the look-ahead.
make_body_writer_stale_flag(g, content) ==
    IF content = NoContent
    THEN IF g.st = "start"
         THEN [gen |-> [g EXCEPT !.st = "none"], out |-> Yield(NoneBody, FALSE)]
         ELSE [gen |-> [g EXCEPT !.st = "done"], out |-> StopAsyncIteration]
    ELSE IF g.st = "start"
         THEN IF Len(content) = 0
              THEN [gen |-> [g EXCEPT !.st = "empty", !.more_body = FALSE],
                    out |-> Yield(NoneBody, FALSE)]
              ELSE [gen |-> [g EXCEPT !.st = "loop", !.first = content[1],
                                      !.pos = 1],
                    out |-> Yield(content[1], TRUE)]
         ELSE IF g.st = "loop" /\ g.pos < Len(content)
              THEN [gen |-> [g EXCEPT !.first = content[g.pos + 1],
                                      !.pos = g.pos + 1],
                    out |-> Yield(content[g.pos + 1], TRUE)]
              ELSE [gen |-> [g EXCEPT !.st = "done"], out |-> StopAsyncIteration]

\* Not the code: a request without a body yields an empty chunk, b'', not None,
\* and announces more to come.
make_body_writer_empty_chunk(g, content) ==
    IF content = NoContent
    THEN IF g.st = "start"
         THEN [gen |-> [g EXCEPT !.st = "none"], out |-> Yield(0, TRUE)]
         ELSE IF g.st = "none"
              THEN [gen |-> [g EXCEPT !.st = "empty"],
                    out |-> Yield(NoneBody, FALSE)]
              ELSE [gen |-> [g EXCEPT !.st = "done"], out |-> StopAsyncIteration]
    ELSE IF g.st = "start"
         THEN IF Len(content) = 0
              THEN [gen |-> [g EXCEPT !.st = "empty", !.more_body = FALSE],
                    out |-> Yield(NoneBody, FALSE)]
              ELSE body_writer_loop([g EXCEPT !.first = content[1], !.pos = 1],
                                    content)
         ELSE IF g.st = "loop"
              THEN body_writer_loop([g EXCEPT !.first = g.second], content)
              ELSE [gen |-> [g EXCEPT !.st = "done"], out |-> StopAsyncIteration]

\* Resume the generator once (anext): the new generator state and what it
\* yields, or StopAsyncIteration when it returns.
make_body_writer(g, content) ==
    IF content = NoContent
    THEN IF g.st = "start"
         THEN [gen |-> [g EXCEPT !.st = "none"], out |-> Yield(NoneBody, FALSE)]
         ELSE [gen |-> [g EXCEPT !.st = "done"], out |-> StopAsyncIteration]
    ELSE IF g.st = "start"
         THEN IF Len(content) = 0
              THEN [gen |-> [g EXCEPT !.st = "empty", !.more_body = FALSE],
                    out |-> Yield(NoneBody, FALSE)]
              ELSE body_writer_loop([g EXCEPT !.first = content[1], !.pos = 1],
                                    content)
         ELSE IF g.st = "loop"
              THEN body_writer_loop([g EXCEPT !.first = g.second], content)
              ELSE \* suspended at line 59 or 68, or already finished
                   [gen |-> [g EXCEPT !.st = "done"], out |-> StopAsyncIteration]

\* _make_body_writer of src/bareclient/requester.py (lines 47-68), the body
\* writer of RequestHandlerInstance.  Its except clauses assign more_body
\* alone, so `second` is unbound until the second anext of the content has
\* returned a chunk, and `first = second` (line 68) then raises
\* UnboundLocalError.
Unbound == -2

HandlerWriterInit ==
    [st |-> "start", first |-> Unbound, second |-> Unbound,
     more_body |-> TRUE, pos |-> 0, err |-> "none"]

\* line 68 and the test of the loop: first = second, then `while more_body`
handler_writer_resume(g) ==
    IF g.second = Unbound
    THEN [g EXCEPT !.st = "raised", !.err = "UnboundLocalError"]
    ELSE [g EXCEPT !.first = g.second]

\* One pass of `while more_body:` up to its yield (lines 61-67)
handler_writer_loop(g, content) ==
    IF g.err # "none" THEN [gen |-> g, out |-> StopAsyncIteration]
    ELSE IF ~g.more_body
    THEN [gen |-> [g EXCEPT !.st = "done"], out |-> StopAsyncIteration]
    ELSE IF g.pos < Len(content)
         THEN [gen |-> [g EXCEPT !.st = "loop",
                                 !.second = content[g.pos + 1],
                                 !.pos = g.pos + 1],
               out |-> Yield(g.first, TRUE)]
         ELSE [gen |-> [g EXCEPT !.st = "loop", !.more_body = FALSE],
               out |-> Yield(g.first, FALSE)]

\* Resume the generator once (anext): the new generator state and what it
\* yields; out is StopAsyncIteration when it returns and when it raises
\* (gen.err says which)
handler_make_body_writer(g, content) ==
    IF content = NoContent
    THEN IF g.st = "start"
         THEN [gen |-> [g EXCEPT !.st = "none"], out |-> Yield(NoneBody, FALSE)]
         ELSE [gen |-> [g EXCEPT !.st = "done"], out |-> StopAsyncIteration]
    ELSE IF g.st = "start"
         THEN IF Len(content) = 0
              THEN [gen |-> [g EXCEPT !.st = "empty", !.more_body = FALSE],
                    out |-> Yield(NoneBody, FALSE)]
              ELSE handler_writer_loop([g EXCEPT !.first = content[1],
                                                 !.pos = 1], content)
         ELSE IF g.st = "loop"
              THEN handler_writer_loop(handler_writer_resume(g), content)
              ELSE [gen |-> [g EXCEPT !.st = "done"], out |-> StopAsyncIteration]

\* --------------------------------------------------------------- handles
\* What sits in the loop's ready queue: the step of the requesting
\* coroutine, the step of a spawned response task, the transport's read
\* callback.

NoHandle == [k |-> "none", i |-> 0]
ReqHandle == [k |-> "req", i |-> 0]
TaskHandle(i) == [k |-> "task", i |-> i]
IoHandle == [k |-> "io", i |-> 0]

\* ------------------------------------------------------ asyncio event loop
\* BaseEventLoop._run_once: poll for I/O, append the callbacks that became
\* ready, then run the handles that were in the ready queue at that moment,
\* in FIFO order.  loop.cur is the coroutine whose step is running; a
\* coroutine runs until it suspends or returns, nothing preempts it.

LoopInit == [ready |-> <<>>, todo |-> 0, cur |-> NoHandle]

\* loop.call_soon: a future's wake-up, a new task's first step
call_soon(l, h) == [l EXCEPT !.ready = Append(@, h)]

\* the running coroutine suspends on a future, or returns
suspend(l) == [l EXCEPT !.cur = NoHandle]

\* ------------------------------------------------------------- transport
\* asyncio.StreamReader / StreamWriter over one socket.  net.wire is what
\* the peer has sent and the loop has not yet fed to the StreamReader,
\* net.buf is StreamReader._buffer, net.waiter the coroutine suspended in
\* StreamReader._wait_for_data, net.out what has been written.

NetInit ==
    [open |-> FALSE, buf |-> <<>>, eof |-> FALSE,
     waiter |-> NoHandle, wire |-> <<>>, wireEof |-> FALSE, out |-> <<>>,
     requests |-> 0, tls |-> FALSE]

\* StreamReader.read(n), up to its await: "data" with the bytes read (b'' at
\* end of file), "wait" when the caller must suspend as the waiter, "error"
\* for the RuntimeError raised when another coroutine already waits.
reader_read(n, c) ==
    IF n.buf = <<>> /\ ~n.eof
    THEN IF n.waiter # NoHandle
         THEN [net |-> n, res |-> "error", data |-> <<>>]
         ELSE [net |-> [n EXCEPT !.waiter = c], res |-> "wait", data |-> <<>>]
    ELSE [net |-> [n EXCEPT !.buf = <<>>], res |-> "data", data |-> n.buf]

\* StreamReader.read(n) after the waiter has been woken: whatever is in the
\* buffer by now, which is b'' if another reader emptied it meanwhile.
reader_read_resume(n) ==
    [net |-> [n EXCEPT !.buf = <<>>], res |-> "data", data |-> n.buf]

\* StreamReader.feed_data / feed_eof, called by the loop's read callback
feed(n) ==
    [n EXCEPT !.buf = @ \o n.wire, !.wire = <<>>,
              !.eof = @ \/ n.wireEof, !.waiter = NoHandle]

\* ------------------------------------------------------------ h11 library
\* h11.Connection as H11Protocol uses it: the two state machines (our role
\* CLIENT, their role SERVER), keep-alive, the receive buffer.  What the
\* peer sends is a sequence of units: the response head, DATA, and the end
\* of a framed body.  The head's kind is how the body is framed: "framed" (a
\* non-zero content-length or chunked), "nobody" (no body: content-length 0,
\* 204) and "close" (neither header: the body lasts until the peer closes).

HeadUnit(kind, ka) == [u |-> "head", kind |-> kind, ka |-> ka]
DataUnit == [u |-> "data", kind |-> "-", ka |-> TRUE]
EomUnit == [u |-> "eom", kind |-> "-", ka |-> TRUE]

H11StateInit ==
    [our |-> "IDLE", their |-> "IDLE", keep_alive |-> TRUE,
     rbuf |-> <<>>, rclosed |-> FALSE, kind |-> "-"]

\* ConnectionState._fire_state_triggered_transitions
h11_fire(h) ==
    LET a == IF ~h.keep_alive
             THEN [h EXCEPT !.our = IF @ = "DONE" THEN "MUST_CLOSE" ELSE @,
                            !.their = IF @ = "DONE" THEN "MUST_CLOSE" ELSE @]
             ELSE h
        b == IF a.our = "CLOSED" /\ a.their \in {"DONE", "IDLE"}
             THEN [a EXCEPT !.their = "MUST_CLOSE"]
             ELSE a
    IN  IF b.their = "CLOSED" /\ b.our \in {"DONE", "IDLE"}
        THEN [b EXCEPT !.our = "MUST_CLOSE"]
        ELSE b

\* h11.Connection.send(event) for the events a client sends.  err is TRUE
\* for LocalProtocolError, which also moves our state to ERROR.
h11_send(h, ev) ==
    LET bad == [h |-> [h EXCEPT !.our = "ERROR"], err |-> TRUE]
        ok(o) == [h |-> h11_fire([h EXCEPT !.our = o]), err |-> FALSE]
    IN  CASE ev = "Request" ->
               IF h.our = "IDLE"
               THEN [h |-> h11_fire([h EXCEPT !.our = "SEND_BODY",
                                              !.their = IF @ = "IDLE"
                                                        THEN "SEND_RESPONSE"
                                                        ELSE @]),
                     err |-> FALSE]
               ELSE bad
          [] ev = "Data" -> IF h.our = "SEND_BODY" THEN ok("SEND_BODY") ELSE bad
          [] ev = "EndOfMessage" ->
               IF h.our = "SEND_BODY" THEN ok("DONE") ELSE bad
          [] ev = "ConnectionClosed" ->
               IF h.our \in {"IDLE", "DONE", "MUST_CLOSE", "CLOSED"}
               THEN ok("CLOSED")
               ELSE bad

\* h11.Connection.start_next_cycle: only from (DONE, DONE)
h11_start_next_cycle(h) ==
    IF h.our = "DONE" /\ h.their = "DONE"
    THEN [h |-> [h EXCEPT !.our = "IDLE", !.their = "IDLE", !.kind = "-"],
          err |-> FALSE]
    ELSE [h |-> h, err |-> TRUE]

\* h11.Connection.receive_data: b'' marks the receive buffer closed
h11_receive_data(h, data) ==
    IF data = <<>>
    THEN [h EXCEPT !.rclosed = TRUE]
    ELSE IF h.rclosed
         THEN \* "received close, then received more data?": the caller fails
              [h EXCEPT !.their = "ERROR"]
         ELSE [h EXCEPT !.rbuf = @ \o data]

\* h11.Connection.next_event.  ev is the event returned, or "Error" for
\* RemoteProtocolError (their state becomes ERROR).
h11_next_event(h) ==
    LET fail == [h |-> [h EXCEPT !.their = "ERROR"], ev |-> "Error"]
        got(h1, e) == [h |-> h11_fire(h1), ev |-> e]
        eofOnly == h.rbuf = <<>> /\ h.rclosed
    IN  CASE h.their = "ERROR" -> [h |-> h, ev |-> "Error"]
          [] h.their \in {"IDLE", "SEND_RESPONSE"} ->
               IF h.rbuf # <<>>
               THEN IF h.rbuf[1].u = "head"
                    THEN got([h EXCEPT !.rbuf = Tail(@),
                                       !.their = "SEND_BODY",
                                       !.kind = h.rbuf[1].kind,
                                       !.keep_alive = @ /\ h.rbuf[1].ka],
                             "Response")
                    ELSE fail
               ELSE IF eofOnly
                    THEN IF h.their = "IDLE"
                         THEN got([h EXCEPT !.their = "CLOSED"],
                                  "ConnectionClosed")
                         ELSE fail
                    ELSE [h |-> h, ev |-> "NEED_DATA"]
          [] h.their = "SEND_BODY" ->
               IF h.kind = "nobody"
               THEN got([h EXCEPT !.their = "DONE"], "EndOfMessage")
               ELSE IF h.rbuf # <<>>
                    THEN IF h.rbuf[1].u = "data"
                         THEN got([h EXCEPT !.rbuf = Tail(@)], "Data")
                         ELSE IF h.rbuf[1].u = "eom" /\ h.kind = "framed"
                              THEN got([h EXCEPT !.rbuf = Tail(@),
                                                 !.their = "DONE"],
                                       "EndOfMessage")
                              ELSE fail
                    ELSE IF eofOnly
                         THEN IF h.kind = "close"
                              THEN got([h EXCEPT !.their = "DONE"],
                                       "EndOfMessage")
                              ELSE fail
                         ELSE [h |-> h, ev |-> "NEED_DATA"]
          [] h.their = "DONE" ->
               IF h.rbuf # <<>>
               THEN [h |-> h, ev |-> "PAUSED"]
               ELSE IF eofOnly
                    THEN got([h EXCEPT !.their = "CLOSED"], "ConnectionClosed")
                    ELSE [h |-> h, ev |-> "NEED_DATA"]
          [] h.their \in {"MUST_CLOSE", "CLOSED"} ->
               IF h.rbuf # <<>>
               THEN fail
               ELSE IF eofOnly
                    THEN got([h EXCEPT !.their = "CLOSED"], "ConnectionClosed")
                    ELSE [h |-> h, ev |-> "NEED_DATA"]

\* ------------------------------------------------------------- h2 library
\* h2.connection.H2Connection as H2Protocol uses it: the client's streams
\* (ids 1, 3, ...), each with its state and outbound flow-control window,
\* the connection's outbound window and max_outbound_frame_size.  credit is
\* what the peer has granted so far: the initial window plus every
\* WINDOW_UPDATE increment received (index 0 is the connection).

StreamIds == {2 * i - 1 : i \in 1..MaxRequests}

H2ConnInit ==
    [next_stream_id |-> 1,
     out_window |-> InitialWindow,
     max_outbound_frame_size |-> MaxFrameSize,
     streams |-> [s \in StreamIds |->
                     [state |-> "idle", out_window |-> InitialWindow]],
     credit |-> [s \in StreamIds \cup {NoneStream} |-> InitialWindow],
     closed |-> FALSE]

\* the events h2 hands to the engine
Ev(e, sid, n, fcl, ended) ==
    [e |-> e, stream_id |-> sid, n |-> n, flow_controlled_length |-> fcl,
     stream_ended |-> ended]

\* the frames of the peer, as units on the wire
Frame(u, sid, n, pad, end) ==
    [u |-> u, sid |-> sid, n |-> n, pad |-> pad, end |-> end]

\* H2Connection.send_headers on a new stream
h2_send_headers(c, sid) ==
    [c EXCEPT !.streams[sid].state = "open", !.next_stream_id = sid + 2]

\* H2Connection.local_flow_control_window
h2_local_flow_control_window(c, sid) ==
    Min2(c.out_window, c.streams[sid].out_window)

\* the stream's state after this side has sent END_STREAM
h2_local_end(st) == IF st = "open" THEN "half_closed_local" ELSE "closed"

\* the stream's state after the peer has sent END_STREAM
h2_remote_end(st) ==
    CASE st = "open" -> "half_closed_remote"
      [] st = "half_closed_local" -> "closed"
      [] OTHER -> st

\* H2Connection.send_data(stream_id, data, end_stream): err is the exception
\* raised, "none" when the frame is sent
h2_send_data(c, sid, n, end) ==
    IF n > h2_local_flow_control_window(c, sid)
    THEN [c |-> c, err |-> "FlowControlError"]
    ELSE IF n > c.max_outbound_frame_size
    THEN [c |-> c, err |-> "FrameTooLargeError"]
    ELSE IF c.streams[sid].state \notin {"open", "half_closed_remote"}
    THEN [c |-> c, err |-> "StreamClosedError"]
    ELSE [c |-> [c EXCEPT !.out_window = @ - n,
                          !.streams[sid].out_window = @ - n,
                          !.streams[sid].state =
                              IF end THEN h2_local_end(@) ELSE @],
          err |-> "none"]

\* H2Connection.end_stream: an empty DATA frame with END_STREAM
h2_end_stream(c, sid) == h2_send_data(c, sid, 0, TRUE)

\* H2Connection.receive_data for one frame: the state and the events
h2_receive_frame(c, f) ==
    LET ended == IF f.end
                 THEN <<Ev("StreamEnded", f.sid, 0, 0, TRUE)>>
                 ELSE <<>>
        c1 == IF f.end
              THEN [c EXCEPT !.streams[f.sid].state = h2_remote_end(@)]
              ELSE c
    IN  CASE f.u = "headers" ->
               [c |-> c1,
                events |-> <<Ev("ResponseReceived", f.sid, 0, 0, f.end)>>
                               \o ended]
          [] f.u = "data" ->
               [c |-> c1,
                events |-> <<Ev("DataReceived", f.sid, f.n, f.n + f.pad, f.end)>>
                               \o ended]
          [] f.u = "trailers" ->
               [c |-> c1,
                events |-> <<Ev("TrailersReceived", f.sid, 0, 0, f.end)>>
                               \o ended]
          [] f.u = "rst" ->
               [c |-> [c EXCEPT !.streams[f.sid].state = "closed"],
                events |-> <<Ev("StreamReset", f.sid, 0, 0, FALSE)>>]
          [] f.u = "window" ->
               [c |-> IF f.sid = NoneStream
                      THEN [c EXCEPT !.out_window = @ + f.n,
                                     !.credit[NoneStream] = @ + f.n]
                      ELSE [c EXCEPT !.streams[f.sid].out_window = @ + f.n,
                                     !.credit[f.sid] = @ + f.n],
                events |-> <<Ev("WindowUpdated", f.sid, f.n, 0, FALSE)>>]
          [] f.u = "goaway" ->
               \* GOAWAY closes the connection's state machine
               [c |-> [c EXCEPT !.closed = TRUE],
                events |-> <<Ev("ConnectionTerminated", NoneStream, 0, 0,
                                FALSE)>>]

\* H2Connection.receive_data: b'' yields no event
RECURSIVE h2_receive_data(_, _)
h2_receive_data(c, data) ==
    IF data = <<>>
    THEN [c |-> c, events |-> <<>>]
    ELSE LET a == h2_receive_frame(c, data[1])
             b == h2_receive_data(a.c, Tail(data))
         IN  [c |-> b.c, events |-> a.events \o b.events]


\* ---------------------------------------------------------------- state

VARIABLES
    engine,     \* "h11" or "h2": the protocol negotiated for the connection
    loop,       \* the asyncio event loop: ready queue, handles left, running
    net,        \* the transport: StreamReader, StreamWriter and the wire
    peer,       \* what the peer has done so far
    h11,        \* the H11Protocol instance and its h11.Connection
    h2,         \* the H2Protocol instance and its h2 connection
    task,       \* the engine's spawned response tasks, one per request
    req,        \* the Requester coroutine: position, locals, user body
    client,     \* the HttpClient scope
    sendLog,    \* the messages passed to send() for the current request
    recvLog,    \* the messages receive() returned for the current request
    mw          \* the middlewares of the client and what they have done

vars ==
    <<engine, loop, net, peer, h11, h2, task, req, client, sendLog, recvLog, mw>>

\* a frame or message head written to the transport
Out(f, sid, n, end) == [f |-> f, sid |-> sid, n |-> n, end |-> end]

\* --------------------------------------------------------- MessageEvent
\* src/src/bareclient/acgi/asyncio_events.py: an asyncio.Event carrying a
\* message.  Nothing ever clears it.

MessageEventInit == [set |-> FALSE, message |-> NoMsg]

set_with_message(ev, m) == [set |-> TRUE, message |-> m]

\* Not the code: the message is handed over and left in place.
take_message_keep(ev) == ev

\* wait_with_message after the wait has returned: the message is handed
\* over and replaced by None
take_message(ev) == [ev EXCEPT !.message = NoMsg]

\* ------------------------------------------------------------ H11Protocol

H11Init ==
    [st |-> H11StateInit, is_initialised |-> FALSE, is_message_ended |-> TRUE,
     connection_event |-> MessageEventInit,
     response_event |-> MessageEventInit]

TaskInit == [pc |-> "none", err |-> "none"]

Running(hd) == loop.cur = hd

\* the requesting coroutine raises e out of the engine or the Requester;
\* req.at is the step that raised
Raise(e) == [req EXCEPT !.pc = "raised", !.err = e, !.at = req.pc]

\* the requesting coroutine returns m from receive()
Return(m) == [req EXCEPT !.pc = req.rret, !.msg = m]

Logged(log, m) == Append(log, [no |-> req.no, msg |-> m])

\* H11Protocol._send_request_data on the h11 state and what it writes
h11_send_request_data(st, out, body, more_body) ==
    LET a == IF body # NoneBody
             THEN h11_send(st, "Data")
             ELSE [h |-> st, err |-> FALSE]
        o1 == IF body # NoneBody /\ ~a.err
              THEN Append(out, Out("data", NoneStream, body, FALSE))
              ELSE out
        b == IF ~a.err /\ ~more_body
             THEN h11_send(a.h, "EndOfMessage")
             ELSE a
        o2 == IF ~a.err /\ ~more_body /\ ~b.err
              THEN Append(o1, Out("eom", NoneStream, 0, TRUE))
              ELSE o1
    IN  [h |-> b.h, err |-> a.err \/ b.err, out |-> o2]

\* Not the code: every request starts on a fresh h11 state machine.
h11_connect_afresh(e) ==
    [h |-> [e.st EXCEPT !.our = "IDLE", !.their = "IDLE", !.kind = "-"],
     err |-> FALSE]

\* _connect, lines 51-53: start_next_cycle on every request but the first
h11_connect(e) ==
    IF e.is_initialised
    THEN h11_start_next_cycle(e.st)
    ELSE [h |-> e.st, err |-> FALSE]

\* send(http.request): H11Protocol._send_request with _connect and
\* _send_request_data.  writer.drain() returns without suspending, so the
\* whole handler is one step of the coroutine.
H11SendRequest ==
    /\ engine = "h11" /\ Running(ReqHandle) /\ req.pc = "send_request"
    /\ LET cyc == h11_connect(h11)
           snd == h11_send(cyc.h, "Request")
           dat == h11_send_request_data(
                      snd.h, Append(net.out, Out("request", NoneStream, 0, FALSE)),
                      req.out.body, req.out.more_body)
           rc == HttpResponseConnection("h11", NoneStream)
       IN  IF cyc.err
           THEN \* start_next_cycle raised inside _connect
                /\ req' = Raise("LocalProtocolError")
                /\ UNCHANGED <<h11, net, task, loop>>
           ELSE IF snd.err
           THEN \* h11 refused the Request
                /\ req' = Raise("LocalProtocolError")
                /\ h11' = [h11 EXCEPT !.st = snd.h, !.is_initialised = TRUE,
                                      !.is_message_ended = FALSE]
                /\ UNCHANGED <<net, task, loop>>
           ELSE IF dat.err
           THEN /\ req' = Raise("LocalProtocolError")
                /\ h11' = [h11 EXCEPT !.st = dat.h, !.is_initialised = TRUE,
                                      !.is_message_ended = FALSE,
                                      !.connection_event =
                                          set_with_message(@, rc)]
                /\ net' = [net EXCEPT !.out = dat.out, !.requests = @ + 1]
                /\ UNCHANGED <<task, loop>>
           ELSE /\ h11' = [h11 EXCEPT !.st = dat.h, !.is_initialised = TRUE,
                                      !.is_message_ended = FALSE,
                                      !.connection_event =
                                          set_with_message(@, rc)]
                /\ net' = [net EXCEPT !.out = dat.out, !.requests = @ + 1]
                /\ task' = [task EXCEPT ![req.no] = [pc |-> "new", err |-> "none"]]
                /\ loop' = call_soon(loop, TaskHandle(req.no))
                /\ req' = [req EXCEPT !.pc = req.ret]
    /\ UNCHANGED <<mw, engine, peer, h2, client, sendLog, recvLog>>

\* send(http.request.body): H11Protocol._send_request_body
H11SendRequestBody ==
    /\ engine = "h11" /\ Running(ReqHandle) /\ req.pc = "send_request_body"
    /\ LET dat == h11_send_request_data(h11.st, net.out,
                                        req.out.body, req.out.more_body)
       IN  /\ h11' = [h11 EXCEPT !.st = dat.h]
           /\ net' = [net EXCEPT !.out = dat.out]
           /\ req' = IF dat.err THEN Raise("LocalProtocolError")
                                ELSE [req EXCEPT !.pc = req.ret]
    /\ UNCHANGED <<mw, engine, loop, peer, h2, task, client, sendLog, recvLog>>

\* send(http.disconnect): H11Protocol._disconnect.  The transport is closed
\* unless h11 refuses the closing event.
H11Disconnect ==
    /\ engine = "h11" /\ Running(ReqHandle) /\ req.pc = "send_disconnect"
    /\ LET must == ~h11.is_message_ended /\ h11.st.our # "DONE"
           snd == IF must
                  THEN IF h11.st.our = "MUST_CLOSE"
                       THEN h11_send(h11.st, "ConnectionClosed")
                       ELSE h11_send(h11.st, "EndOfMessage")
                  ELSE [h |-> h11.st, err |-> FALSE]
       IN  /\ h11' = [h11 EXCEPT !.st = snd.h]
           /\ IF snd.err
              THEN /\ req' = Raise("LocalProtocolError")
                   /\ net' = net
              ELSE /\ req' = [req EXCEPT !.pc = req.ret]
                   /\ net' = [net EXCEPT
                                 !.open = FALSE,
                                 !.out = IF must /\ h11.st.our # "MUST_CLOSE"
                                         THEN Append(@, Out("eom", NoneStream,
                                                            0, TRUE))
                                         ELSE @]
    /\ UNCHANGED <<mw, engine, loop, peer, h2, task, client, sendLog, recvLog>>

\* receive(), first wait: the connection event (lines 71-73)
H11ReceiveConnection ==
    /\ engine = "h11" /\ Running(ReqHandle) /\ req.pc = "receive"
    /\ IF ~h11.connection_event.set
       THEN \* suspended in Event.wait
            /\ loop' = suspend(loop)
            /\ req' = [req EXCEPT !.wait = "connection_event"]
            /\ UNCHANGED <<h11, recvLog>>
       ELSE /\ h11' = [h11 EXCEPT !.connection_event = take_message(@)]
            /\ IF h11.connection_event.message # NoMsg
               THEN /\ req' = Return(h11.connection_event.message)
                    /\ recvLog' = Logged(recvLog, h11.connection_event.message)
               ELSE /\ req' = [req EXCEPT !.pc = "receive_response"]
                    /\ recvLog' = recvLog
            /\ loop' = loop
    /\ UNCHANGED <<mw, engine, net, peer, h2, task, client, sendLog>>

\* receive(), second wait: the response event (lines 75-77)
H11ReceiveResponseEvent ==
    /\ engine = "h11" /\ Running(ReqHandle) /\ req.pc = "receive_response"
    /\ IF ~h11.response_event.set
       THEN /\ loop' = suspend(loop)
            /\ req' = [req EXCEPT !.wait = "response_event"]
            /\ UNCHANGED <<h11, recvLog>>
       ELSE /\ h11' = [h11 EXCEPT !.response_event = take_message(@)]
            /\ IF h11.response_event.message # NoMsg
               THEN /\ req' = [Return(h11.response_event.message)
                                  EXCEPT !.wait = "none"]
                    /\ recvLog' = Logged(recvLog, h11.response_event.message)
               ELSE /\ req' = [req EXCEPT !.pc = "receive_body_event",
                                          !.wait = "none"]
                    /\ recvLog' = recvLog
            /\ loop' = loop
    /\ UNCHANGED <<mw, engine, net, peer, h2, task, client, sendLog>>


\* the ACGI message for an h11 body event (lines 182-204)
h11_body_message(ev) ==
    CASE ev = "Data" -> HttpResponseBody(1, TRUE, NoneStream)
      [] ev = "EndOfMessage" -> HttpResponseBody(0, FALSE, NoneStream)
      [] ev = "ConnectionClosed" -> HttpDisconnect(NoneStream)

\* receive(), third part: one turn of the loop of _receive_body_event
H11ReceiveBodyEvent ==
    /\ engine = "h11" /\ Running(ReqHandle) /\ req.pc = "receive_body_event"
    /\ LET nx == h11_next_event(h11.st)
           rd == reader_read(net, ReqHandle)
       IN  CASE nx.ev = "NEED_DATA" ->
                  (CASE rd.res = "data" ->
                         /\ h11' = [h11 EXCEPT
                                       !.st = h11_receive_data(nx.h, rd.data)]
                         /\ net' = rd.net
                         /\ UNCHANGED <<req, loop, recvLog>>
                    [] rd.res = "wait" ->
                         /\ net' = rd.net
                         /\ loop' = suspend(loop)
                         /\ req' = [req EXCEPT !.pc = "receive_body_read",
                                               !.wait = "read"]
                         /\ UNCHANGED <<h11, recvLog>>
                    [] rd.res = "error" ->
                         /\ req' = Raise("RuntimeError")
                         /\ UNCHANGED <<h11, net, loop, recvLog>>)
             [] nx.ev \in {"Data", "EndOfMessage", "ConnectionClosed"} ->
                  /\ h11' = [h11 EXCEPT
                                !.st = nx.h,
                                !.is_message_ended =
                                    IF nx.ev = "EndOfMessage" THEN TRUE ELSE @]
                  /\ req' = Return(h11_body_message(nx.ev))
                  /\ recvLog' = Logged(recvLog, h11_body_message(nx.ev))
                  /\ UNCHANGED <<net, loop>>
             [] nx.ev = "Error" ->
                  /\ h11' = [h11 EXCEPT !.st = nx.h]
                  /\ req' = Raise("RemoteProtocolError")
                  /\ UNCHANGED <<net, loop, recvLog>>
             [] nx.ev \in {"Response", "PAUSED"} ->
                  \* raise ValueError('Unknown event')
                  /\ h11' = [h11 EXCEPT !.st = nx.h]
                  /\ req' = Raise("ValueError")
                  /\ UNCHANGED <<net, loop, recvLog>>
    /\ UNCHANGED <<mw, engine, peer, h2, task, client, sendLog>>

\* _receive_body_event resumed inside reader.read (line 181)
H11ReceiveBodyRead ==
    /\ engine = "h11" /\ Running(ReqHandle) /\ req.pc = "receive_body_read"
    /\ LET rd == reader_read_resume(net)
       IN  /\ net' = rd.net
           /\ h11' = [h11 EXCEPT !.st = h11_receive_data(@, rd.data)]
    /\ req' = [req EXCEPT !.pc = "receive_body_event", !.wait = "none"]
    /\ UNCHANGED <<mw, engine, loop, peer, h2, task, client, sendLog, recvLog>>

\* more_body as _receive_response computes it from the headers (lines
\* 142-147): a non-zero content-length, or transfer-encoding: chunked
h11_more_body(kind) == kind = "framed"

\* Event.set wakes the coroutine suspended in wait()
wake_waiter(l, w) == IF req.wait = w THEN call_soon(l, ReqHandle) ELSE l

\* the spawned task: one turn of the loop of H11Protocol._receive_response
H11ReceiveResponse(i) ==
    /\ engine = "h11" /\ Running(TaskHandle(i)) /\ task[i].pc = "new"
    /\ LET nx == h11_next_event(h11.st)
           rd == reader_read(net, TaskHandle(i))
           done(e) == [task EXCEPT ![i] = [pc |-> "done", err |-> e]]
       IN  CASE nx.ev = "NEED_DATA" ->
                  (CASE rd.res = "data" ->
                         /\ h11' = [h11 EXCEPT
                                       !.st = h11_receive_data(nx.h, rd.data)]
                         /\ net' = rd.net
                         /\ UNCHANGED <<task, loop>>
                    [] rd.res = "wait" ->
                         /\ net' = rd.net
                         /\ loop' = suspend(loop)
                         /\ task' = [task EXCEPT ![i].pc = "read"]
                         /\ h11' = h11
                    [] rd.res = "error" ->
                         /\ task' = done("RuntimeError")
                         /\ loop' = suspend(loop)
                         /\ UNCHANGED <<h11, net>>)
             [] nx.ev = "Response" ->
                  /\ h11' = [h11 EXCEPT
                                !.st = nx.h,
                                !.response_event =
                                    set_with_message(@,
                                        HttpResponse("1.1",
                                                     h11_more_body(nx.h.kind),
                                                     NoneStream))]
                  /\ task' = done("none")
                  /\ loop' = suspend(wake_waiter(loop, "response_event"))
                  /\ net' = net
             [] nx.ev \in {"ConnectionClosed", "EndOfMessage"} ->
                  /\ h11' = [h11 EXCEPT !.st = nx.h]
                  /\ task' = done("ConnectionError")
                  /\ loop' = suspend(loop)
                  /\ net' = net
             [] nx.ev = "Error" ->
                  /\ h11' = [h11 EXCEPT !.st = nx.h]
                  /\ task' = done("RemoteProtocolError")
                  /\ loop' = suspend(loop)
                  /\ net' = net
             [] nx.ev \in {"Data", "PAUSED"} ->
                  /\ h11' = [h11 EXCEPT !.st = nx.h]
                  /\ task' = done("ValueError")
                  /\ loop' = suspend(loop)
                  /\ net' = net
    /\ UNCHANGED <<mw, engine, peer, h2, req, client, sendLog, recvLog>>

\* _receive_response resumed inside reader.read (line 133)
H11ReceiveResponseRead(i) ==
    /\ engine = "h11" /\ Running(TaskHandle(i)) /\ task[i].pc = "read"
    /\ LET rd == reader_read_resume(net)
       IN  /\ net' = rd.net
           /\ h11' = [h11 EXCEPT !.st = h11_receive_data(@, rd.data)]
    /\ task' = [task EXCEPT ![i].pc = "new"]
    /\ UNCHANGED <<mw, engine, loop, peer, h2, req, client, sendLog, recvLog>>


\* ------------------------------------------------------------- H2Protocol
\* src/bareclient/acgi/h2_protocol.py.  window_update_event is the set of
\* stream ids the dictionary has a ResetEvent for; a ResetEvent keeps no
\* state, set() wakes whoever waits at that moment.  response_task is the
\* number of the request whose task was spawned last (0 for None), on_close
\* the stream id bound into the close callback (NoneStream for None).
\* acked, delivered_length, tx, last and delivered record what the engine
\* did: the lengths acknowledged, the flow-controlled lengths of the DATA
\* events put on the queue, the bytes passed to send_data per stream, the
\* last send_data call, and the messages receive() returned.  signals
\* records, for each WindowUpdated event handled, its stream id, the streams
\* that had an event then, and the streams whose event was set.

H2Init ==
    [conn |-> H2ConnInit, window_update_event |-> {}, initialized |-> FALSE,
     responses |-> <<>>, response_task |-> 0, on_close |-> NoneStream,
     h2_events |-> <<>>,
     acked |-> 0, delivered_length |-> 0,
     tx |-> [s \in StreamIds |-> 0],
     last |-> [stream_id |-> NoneStream, n |-> 0, limit |-> 0],
     delivered |-> <<>>, signals |-> <<>>]

\* Not the code: the frame size ignores the flow-control window.
chunk_size_no_window(len, window_size, max_frame) == Min2(len, max_frame)

\* _send_data, lines 199-203: the size of the next DATA frame
chunk_size(len, window_size, max_frame) ==
    Min2(len, Min2(window_size, max_frame))

\* Not the code: the length acknowledged is that of the data, without padding.
ack_data_length(ev) == ev.n

\* _receive_response, lines 255-257: the length acknowledged for a DATA event
ack_length(ev) == ev.flow_controlled_length

\* _receive_response, lines 237-248: the message for ResponseReceived
response_message(ev) == HttpResponse("2", ~ev.stream_ended, ev.stream_id)

\* Not the code: a DATA event passed on as another Response.
response_body_as_response(ev) ==
    HttpResponse("2", ~ev.stream_ended, ev.stream_id)

\* Not the code: every body frame says it is the last.
response_body_last(ev) == HttpResponseBody(ev.n, FALSE, ev.stream_id)

\* _receive_response, lines 258-263: the message for DataReceived
response_body_message(ev) ==
    HttpResponseBody(ev.n, ~ev.stream_ended, ev.stream_id)

\* a future is resolved: the requesting coroutine, if it waits on it,
\* is scheduled and waits no more
WakeReq(r, l, cond) ==
    IF cond
    THEN [r |-> [r EXCEPT !.wait = "none"], l |-> call_soon(l, ReqHandle)]
    ELSE [r |-> r, l |-> l]

\* lines 111-114: the response task is spawned, the close callback bound
h2_create_task(h, sid) == [h EXCEPT !.response_task = req.no, !.on_close = sid]

\* send(http.request): H2Protocol._send_request up to the body
\* (_initiate_connection, _send_headers, the connection message)
H2SendRequest ==
    /\ engine = "h2" /\ Running(ReqHandle) /\ req.pc = "send_request"
    /\ LET sid == h2.conn.next_stream_id
           c1 == h2_send_headers(h2.conn, sid)
           out1 == IF h2.initialized
                   THEN net.out
                   ELSE Append(net.out, Out("preface", NoneStream, 0, FALSE))
           out2 == Append(out1, Out("headers", sid, 0, FALSE))
           a == [h2 EXCEPT !.initialized = TRUE, !.conn = c1,
                           !.window_update_event = @ \cup {sid},
                           !.responses =
                               Append(@, HttpResponseConnection("h2", sid))]
           es == h2_end_stream(c1, sid)
       IN  IF h2.conn.closed
           THEN \* send_headers on a connection the peer has terminated
                /\ req' = Raise("ProtocolError")
                /\ UNCHANGED <<h2, net, task, loop>>
           ELSE IF req.out.body # NoneBody
           THEN /\ h2' = a
                /\ net' = [net EXCEPT !.out = out2, !.requests = @ + 1]
                /\ req' = [req EXCEPT !.pc = "send_data",
                                      !.data = req.out.body, !.dsid = sid,
                                      !.dmore = req.out.more_body,
                                      !.after = "create_task"]
                /\ UNCHANGED <<task, loop>>
           ELSE \* _end_stream, then the task
                /\ h2' = h2_create_task([a EXCEPT !.conn = es.c], sid)
                /\ net' = [net EXCEPT
                              !.out = Append(out2, Out("data", sid, 0, TRUE)),
                              !.requests = @ + 1]
                /\ task' = [task EXCEPT ![req.no] = [pc |-> "new", err |-> "none"]]
                /\ loop' = call_soon(loop, TaskHandle(req.no))
                /\ req' = [req EXCEPT !.pc = req.ret]
    /\ UNCHANGED <<mw, engine, peer, h11, client, sendLog, recvLog>>

\* send(http.request.body): H2Protocol._send_request_body
H2SendRequestBody ==
    /\ engine = "h2" /\ Running(ReqHandle) /\ req.pc = "send_request_body"
    /\ req' = IF req.stream_id = NoneStream
              THEN Raise("AssertionError")
              ELSE [req EXCEPT !.pc = "send_data", !.data = req.out.body,
                               !.dsid = req.stream_id,
                               !.dmore = req.out.more_body,
                               !.after = "return"]
    /\ UNCHANGED <<mw, engine, loop, net, peer, h11, h2, task, client,
                   sendLog, recvLog>>

\* one turn of `while data:` in _send_data, and what follows the loop in
\* _send_request
H2SendData ==
    /\ engine = "h2" /\ Running(ReqHandle) /\ req.pc = "send_data"
    /\ LET sid == req.dsid
           window_size == h2_local_flow_control_window(h2.conn, sid)
           size == chunk_size(req.data, window_size,
                              h2.conn.max_outbound_frame_size)
           snd == h2_send_data(h2.conn, sid, size, ~req.dmore)
           called == [h2 EXCEPT
                         !.tx[sid] = @ + size,
                         !.last = [stream_id |-> sid, n |-> size,
                                   limit |-> Min2(Min2(req.data,
                                                       h2.conn.streams[sid].out_window),
                                                  Min2(h2.conn.out_window,
                                                       h2.conn.max_outbound_frame_size))]]
       IN  IF req.data = 0
           THEN IF req.after = "create_task"
                THEN /\ h2' = h2_create_task(h2, sid)
                     /\ task' = [task EXCEPT
                                    ![req.no] = [pc |-> "new", err |-> "none"]]
                     /\ loop' = call_soon(loop, TaskHandle(req.no))
                     /\ req' = [req EXCEPT !.pc = req.ret]
                     /\ net' = net
                ELSE /\ req' = [req EXCEPT !.pc = req.ret]
                     /\ UNCHANGED <<h2, task, loop, net>>
           ELSE IF size = 0
           THEN IF sid \in h2.window_update_event
                THEN \* suspended in ResetEvent.wait
                     /\ req' = [req EXCEPT !.wait = "window"]
                     /\ loop' = suspend(loop)
                     /\ UNCHANGED <<h2, task, net>>
                ELSE /\ req' = Raise("KeyError")
                     /\ UNCHANGED <<h2, task, loop, net>>
           ELSE IF snd.err # "none"
           THEN /\ req' = Raise(snd.err)
                /\ h2' = called
                /\ UNCHANGED <<task, loop, net>>
           ELSE /\ h2' = [called EXCEPT !.conn = snd.c]
                /\ net' = [net EXCEPT
                              !.out = Append(@, Out("data", sid, size,
                                                    ~req.dmore))]
                /\ req' = [req EXCEPT !.data = @ - size]
                /\ UNCHANGED <<task, loop>>
    /\ UNCHANGED <<mw, engine, peer, h11, client, sendLog, recvLog>>

\* _response_closed after the response task is done (lines 298-311): the
\* task's exception is raised, or the queue is drained and the writer closed
h2_response_closed ==
    IF task[h2.response_task].err # "none"
    THEN /\ req' = Raise(task[h2.response_task].err)
         /\ net' = net
         /\ h2' = [h2 EXCEPT !.window_update_event = @ \ {h2.on_close}]
    ELSE /\ req' = [req EXCEPT !.pc = req.ret]
         /\ net' = [net EXCEPT !.open = FALSE]
         /\ h2' = [h2 EXCEPT !.window_update_event = @ \ {h2.on_close},
                             !.responses = <<>>]

\* send(http.disconnect): on_close, which is _response_closed
H2Disconnect ==
    /\ engine = "h2" /\ Running(ReqHandle) /\ req.pc = "send_disconnect"
    /\ IF h2.on_close = NoneStream
       THEN /\ req' = [req EXCEPT !.pc = req.ret]
            /\ UNCHANGED <<h2, net, loop>>
       ELSE IF h2.on_close \notin h2.window_update_event
       THEN /\ req' = Raise("KeyError")
            /\ UNCHANGED <<h2, net, loop>>
       ELSE IF task[h2.response_task].pc = "done"
       THEN /\ h2_response_closed
            /\ loop' = loop
       ELSE \* suspended in `await self.response_task`
            /\ h2' = [h2 EXCEPT !.window_update_event = @ \ {h2.on_close}]
            /\ req' = [req EXCEPT !.pc = "response_closed", !.wait = "task"]
            /\ loop' = suspend(loop)
            /\ net' = net
    /\ UNCHANGED <<mw, engine, peer, h11, task, client, sendLog, recvLog>>

\* _response_closed resumed when the response task has finished
H2ResponseClosed ==
    /\ engine = "h2" /\ Running(ReqHandle) /\ req.pc = "response_closed"
    /\ h2_response_closed
    /\ UNCHANGED <<mw, engine, loop, peer, h11, task, client, sendLog, recvLog>>

\* asyncio.Queue.get on a queue that is not empty
queue_get(q) == [item |-> Head(q), queue |-> Tail(q)]

\* receive(): responses.get()
H2Receive ==
    /\ engine = "h2" /\ Running(ReqHandle) /\ req.pc = "receive"
    /\ IF h2.responses = <<>>
       THEN /\ req' = [req EXCEPT !.wait = "queue"]
            /\ loop' = suspend(loop)
            /\ UNCHANGED <<h2, recvLog>>
       ELSE LET got == queue_get(h2.responses)
            IN  /\ req' = Return(got.item)
                /\ h2' = [h2 EXCEPT !.responses = got.queue,
                                    !.delivered = Append(@, got.item)]
                /\ recvLog' = Logged(recvLog, got.item)
                /\ loop' = loop
    /\ UNCHANGED <<mw, engine, net, peer, h11, task, client, sendLog>>

\* Not the code: a WindowUpdated of a stream sets the event of every stream.
signalled_all(stream_id, keys) == keys

\* _receive_event, lines 279-283: the events a WindowUpdated sets
signalled(stream_id, keys) ==
    IF stream_id = NoneStream THEN keys ELSE {stream_id}

\* _receive_event, lines 277-285: the events are appended one by one, each
\* WindowUpdated setting the stream's event (all events for stream 0); a
\* stream without an event raises KeyError and the rest is lost
dispatch(events, keys) ==
    LET bad == {k \in 1..Len(events) :
                   /\ events[k].e = "WindowUpdated"
                   /\ events[k].stream_id # NoneStream
                   /\ events[k].stream_id \notin keys}
        n == IF bad = {}
             THEN Len(events)
             ELSE (CHOOSE k \in bad : \A j \in bad : k <= j) - 1
    IN  [events |-> SubSeq(events, 1, n),
         err |-> bad # {},
         set |-> UNION {IF events[k].e = "WindowUpdated"
                        THEN signalled(events[k].stream_id, keys)
                        ELSE {} : k \in 1..n},
         signals |-> [k \in 1..n |->
                         [e |-> events[k].e,
                          stream_id |-> events[k].stream_id,
                          keys |-> keys,
                          set |-> IF events[k].e = "WindowUpdated"
                                  THEN signalled(events[k].stream_id, keys)
                                  ELSE {}]]]

\* the response task ends (with exception e, or "none"): whoever awaits it
\* is woken
h2_task_done(i, e, r, l) ==
    LET w == WakeReq(r, l, r.wait = "task" /\ h2.response_task = i)
    IN  /\ task' = [task EXCEPT ![i] = [pc |-> "done", err |-> e]]
        /\ req' = w.r
        /\ loop' = suspend(w.l)

\* _receive_event, lines 276-289, with the data read: phase is where the
\* task continues ("new" before the response head, "body" after it)
h2_feed(i, phase, n1, data) ==
    LET rc == h2_receive_data(h2.conn, data)
        d == dispatch(rc.events, h2.window_update_event)
        w == WakeReq(req, loop, req.wait = "window" /\ req.dsid \in d.set)
        updates == SelectSeq(d.signals, LAMBDA g : g.e = "WindowUpdated")
    IN  /\ net' = n1
        /\ h2' = [h2 EXCEPT !.conn = rc.c, !.h2_events = @ \o d.events,
                            !.signals = @ \o updates]
        /\ IF d.err
           THEN h2_task_done(i, "KeyError", w.r, w.l)
           ELSE /\ task' = [task EXCEPT ![i].pc = phase]
                /\ req' = w.r
                /\ loop' = w.l

\* the spawned task: one turn of the loops of H2Protocol._receive_response,
\* which is one turn of the loop of _receive_event or the event it returns
H2ReceiveResponse(i) ==
    /\ engine = "h2" /\ Running(TaskHandle(i)) /\ task[i].pc \in {"new", "body"}
    /\ IF h2.h2_events # <<>>
       THEN LET ev == Head(h2.h2_events)
                popped == [h2 EXCEPT !.h2_events = Tail(@)]
                put(h, m) == [h EXCEPT !.responses = Append(@, m)]
                w == WakeReq(req, loop, req.wait = "queue")
            IN  /\ net' = net
                /\ CASE task[i].pc = "new" /\ ev.e = "ResponseReceived" ->
                          /\ h2' = put(popped, response_message(ev))
                          /\ task' = [task EXCEPT ![i].pc = "body"]
                          /\ req' = w.r
                          /\ loop' = w.l
                     [] task[i].pc = "body" /\ ev.e = "DataReceived" ->
                          /\ h2' = [put(popped, response_body_message(ev))
                                       EXCEPT
                                       !.acked = @ + ack_length(ev),
                                       !.delivered_length =
                                           @ + ev.flow_controlled_length]
                          /\ req' = w.r
                          /\ loop' = w.l
                          /\ task' = task
                     [] task[i].pc = "body"
                            /\ ev.e \in {"StreamEnded", "StreamReset"} ->
                          /\ h2' = put(popped, HttpDisconnect(ev.stream_id))
                          /\ h2_task_done(i, "none", w.r, w.l)
                     [] OTHER ->
                          /\ h2' = popped
                          /\ UNCHANGED <<task, req, loop>>
       ELSE LET rd == reader_read(net, TaskHandle(i))
            IN  CASE rd.res = "data" /\ rd.data = <<>> ->
                       \* end of file: receive_data(b'') gives no event and
                       \* the loop reads again.  Where the transport has
                       \* not reported the lost connection yet, neither
                       \* read() nor drain() (line 289) suspends and the
                       \* task reads for ever; where it has, drain() raises
                       \* ConnectionResetError.
                       \/ /\ task' = [task EXCEPT ![i].pc = "spin"]
                          /\ UNCHANGED <<h2, net, req, loop>>
                       \/ /\ h2_task_done(i, "ConnectionResetError",
                                           req, loop)
                          /\ UNCHANGED <<h2, net>>
                  [] rd.res = "data" /\ rd.data # <<>> ->
                       h2_feed(i, task[i].pc, rd.net, rd.data)
                  [] rd.res = "wait" ->
                       /\ net' = rd.net
                       /\ loop' = suspend(loop)
                       /\ task' = [task EXCEPT
                                      ![i].pc = IF @ = "new" THEN "read"
                                                ELSE "body_read"]
                       /\ UNCHANGED <<h2, req>>
                  [] rd.res = "error" ->
                       /\ h2_task_done(i, "RuntimeError", req, loop)
                       /\ UNCHANGED <<h2, net>>
    /\ UNCHANGED <<mw, engine, peer, h11, client, sendLog, recvLog>>

\* _receive_event resumed inside reader.read (line 275)
H2ReceiveResponseRead(i) ==
    /\ engine = "h2" /\ Running(TaskHandle(i))
    /\ task[i].pc \in {"read", "body_read"}
    /\ LET rd == reader_read_resume(net)
       IN  h2_feed(i, IF task[i].pc = "read" THEN "new" ELSE "body",
                   rd.net, rd.data)
    /\ UNCHANGED <<mw, engine, peer, h11, client, sendLog, recvLog>>


\* -------------------------------------------------------------- Requester
\* RequesterInstance (src/bareclient/acgi/requester.py) run by the
\* coroutine that entered the HttpClient scope.  req.ret is where that
\* coroutine continues after the engine's send() returns, req.rret after
\* receive() returns.  req.content is the body of the current request,
\* req.bodies the bodies user code makes its requests with, req.requests
\* how many requests it makes over the engine.

ReqInit(content, bodies, requests) ==
    [pc |-> "idle", ret |-> "-", rret |-> "-", wait |-> "none", no |-> 1,
     requests |-> requests, bodies |-> bodies, content |-> content, gen |-> BodyWriterInit, out |-> Yield(NoneBody, FALSE),
     stream_id |-> NoneStream, more_body |-> FALSE, msg |-> NoMsg,
     err |-> "none", at |-> "-", awaits |-> 0, yielded |-> 0,
     data |-> 0, dsid |-> NoneStream, dmore |-> FALSE, after |-> "-"]

\* _process_request, lines 119-133: the first pair goes into http.request
ProcessRequest ==
    /\ Running(ReqHandle) /\ req.pc = "process_request"
    /\ LET w == make_body_writer(req.gen, req.content)
       IN  /\ req' = [req EXCEPT !.gen = w.gen, !.out = w.out,
                                 !.pc = "send_request", !.ret = "receive",
                                 !.rret = "connection"]
           /\ sendLog' = Logged(sendLog,
                                HttpRequest(w.out.body, w.out.more_body))
    /\ UNCHANGED <<mw, engine, loop, net, peer, h11, h2, task, client, recvLog>>

\* _process_request, lines 135-140: whatever receive() returned is taken to
\* be the connection message
Connection ==
    /\ Running(ReqHandle) /\ req.pc = "connection"
    /\ req' = [req EXCEPT !.stream_id = req.msg.stream_id, !.pc = "send_body"]
    /\ UNCHANGED <<mw, engine, loop, net, peer, h11, h2, task, client,
                   sendLog, recvLog>>

\* _process_request, lines 142-149: one turn of `async for ... in body_writer`
SendBody ==
    /\ Running(ReqHandle) /\ req.pc = "send_body"
    /\ LET w == make_body_writer(req.gen, req.content)
           body == IF w.out.body = NoneBody THEN 0 ELSE w.out.body
       IN  IF w.out.stop
           THEN /\ req' = [req EXCEPT !.gen = w.gen, !.pc = "receive",
                                      !.rret = "process_response"]
                /\ sendLog' = sendLog
           ELSE /\ req' = [req EXCEPT !.gen = w.gen,
                                      !.out = Yield(body, w.out.more_body),
                                      !.pc = "send_request_body",
                                      !.ret = "send_body"]
                /\ sendLog' = Logged(sendLog,
                                     HttpRequestBody(body, w.out.more_body,
                                                     req.stream_id))
    /\ UNCHANGED <<mw, engine, loop, net, peer, h11, h2, task, client, recvLog>>

\* _process_response, lines 154-155 and 171: what a message that is not a
\* Response raises
process_response_error(msg) ==
    IF msg.type = "http.disconnect" THEN "IOError" ELSE "ValueError"

\* _process_response, lines 152-171
ProcessResponse ==
    /\ Running(ReqHandle) /\ req.pc = "process_response"
    /\ IF req.msg.type = "http.response"
       THEN /\ req' = [req EXCEPT !.pc = "in_scope",
                                  !.more_body = req.msg.more_body]
            /\ client' = "entered"
       ELSE /\ req' = Raise(process_response_error(req.msg))
            /\ client' = client
    /\ UNCHANGED <<mw, engine, loop, net, peer, h11, h2, task, sendLog, recvLog>>

\* the user iterates response.body: _body_reader up to its receive()
BodyReader ==
    /\ Running(ReqHandle) /\ req.pc = "in_scope" /\ req.more_body
    /\ req' = [req EXCEPT !.pc = "receive", !.rret = "body_reader"]
    /\ UNCHANGED <<mw, engine, loop, net, peer, h11, h2, task, client,
                   sendLog, recvLog>>

\* Not the code: every message that is not a body frame is a protocol error.
body_reader_error_invalid(msg) == "ValueError"

\* _body_reader, lines 177-178 and 183-186: what a message that is not a
\* body frame raises
body_reader_error(msg) ==
    IF msg.type = "http.disconnect" THEN "IOError" ELSE "ValueError"

\* _body_reader, lines 177-186, with the message receive() returned
BodyReaderMessage ==
    /\ Running(ReqHandle) /\ req.pc = "body_reader"
    /\ IF req.msg.type = "http.response.body"
       THEN req' = [req EXCEPT !.pc = "in_scope",
                               !.more_body = req.msg.more_body,
                               !.yielded = @ + 1]
       ELSE req' = Raise(body_reader_error(req.msg))
    /\ UNCHANGED <<mw, engine, loop, net, peer, h11, h2, task, client,
                   sendLog, recvLog>>

\* RequesterInstance.close, on leaving the scope (HttpClient.__aexit__)
Close ==
    /\ Running(ReqHandle) /\ req.pc = "in_scope"
    /\ req' = [req EXCEPT !.pc = "send_disconnect", !.ret = "closed"]
    /\ client' = "exiting"
    /\ sendLog' = Logged(sendLog, HttpDisconnect(NoneStream))
    /\ UNCHANGED <<mw, engine, loop, net, peer, h11, h2, task, recvLog>>

\* the scope has been left
Closed ==
    /\ Running(ReqHandle) /\ req.pc = "closed"
    /\ req' = [req EXCEPT !.pc = "end"]
    /\ client' = "closed"
    /\ loop' = suspend(loop)
    /\ UNCHANGED <<mw, engine, net, peer, h11, h2, task, sendLog, recvLog>>

\* Requester.__call__ again on the same engine: a new RequesterInstance
NextRequest ==
    /\ Running(ReqHandle) /\ req.pc = "in_scope" /\ req.no < req.requests
    /\ \E content \in req.bodies :
          req' = [req EXCEPT !.pc = "process_request", !.no = @ + 1,
                             !.content = content, !.gen = BodyWriterInit,
                             !.stream_id = NoneStream, !.more_body = FALSE,
                             !.yielded = 0]
    /\ sendLog' = <<>>
    /\ recvLog' = <<>>
    /\ net' = [net EXCEPT !.out = <<>>]
    /\ UNCHANGED <<mw, engine, loop, peer, h11, h2, task, client>>

\* user code awaits something of its own: while producing the next body
\* chunk, or between two steps inside the scope
UserAwait ==
    /\ Running(ReqHandle) /\ req.pc \in {"send_body", "in_scope"}
    /\ req.awaits < MaxUserAwaits
    /\ req' = [req EXCEPT !.wait = "user", !.awaits = @ + 1]
    /\ loop' = suspend(loop)
    /\ UNCHANGED <<mw, engine, net, peer, h11, h2, task, client, sendLog, recvLog>>

\* An exception leaves the Requester.  While entering the scope it leaves
\* HttpClient.__aenter__ through connect(), neither of which handles it;
\* inside the scope it runs __aexit__, which closes the handler.
Raised ==
    /\ Running(ReqHandle) /\ req.pc = "raised"
    /\ CASE client = "entering" ->
              /\ client' = "failed"
              /\ req' = [req EXCEPT !.pc = "end"]
              /\ loop' = suspend(loop)
              /\ sendLog' = sendLog
         [] client = "entered" ->
              /\ client' = "exiting"
              /\ req' = [req EXCEPT !.pc = "send_disconnect", !.ret = "closed"]
              /\ loop' = loop
              /\ sendLog' = Logged(sendLog, HttpDisconnect(NoneStream))
         [] client = "exiting" ->
              /\ client' = "exit_failed"
              /\ req' = [req EXCEPT !.pc = "end"]
              /\ loop' = suspend(loop)
              /\ sendLog' = sendLog
    /\ UNCHANGED <<mw, engine, net, peer, h11, h2, task, recvLog>>

\* -------------------------------------------------------------- HttpClient
\* HttpClient.__aenter__ and connect(): open the connection, make the engine
\* for the negotiated protocol, run the request handler on it.
ClientEnter ==
    /\ client = "new"
    /\ \/ \* asyncio.open_connection fails or times out
          /\ client' = "failed"
          /\ UNCHANGED <<net, loop, req>>
       \/ /\ client' = "entering"
          /\ net' = [net EXCEPT !.open = TRUE]
          /\ loop' = [loop EXCEPT !.cur = ReqHandle]
          /\ req' = [req EXCEPT !.pc = "process_request"]
    /\ UNCHANGED <<mw, engine, peer, h11, h2, task, sendLog, recvLog>>


\* ------------------------------------------------------- event loop steps

\* the socket is readable: the selector reports it at the next poll
IoReady == net.open /\ ~net.eof /\ (net.wire # <<>> \/ net.wireEof)

\* _run_once, first half: poll, queue the callbacks of what became ready
\* (the transport's read callback; the wake-up of user code that awaited
\* something of its own, before or after it), and fix the number of handles
\* this iteration runs.
LoopSelect ==
    /\ loop.cur = NoHandle /\ loop.todo = 0
    /\ \E user \in BOOLEAN, userFirst \in BOOLEAN :
          /\ user => req.wait = "user"
          /\ userFirst => user /\ IoReady
          /\ LET io == IF IoReady THEN <<IoHandle>> ELSE <<>>
                 us == IF user THEN <<ReqHandle>> ELSE <<>>
                 rdy == loop.ready \o (IF userFirst THEN us \o io ELSE io \o us)
             IN  /\ rdy # <<>>
                 /\ loop' = [loop EXCEPT !.ready = rdy, !.todo = Len(rdy)]
          /\ req' = IF user THEN [req EXCEPT !.wait = "none"] ELSE req
    /\ UNCHANGED <<mw, engine, net, peer, h11, h2, task, client, sendLog, recvLog>>

\* _run_once, second half: run the next handle.  The read callback feeds the
\* StreamReader and wakes its waiter; a coroutine's handle resumes it.
LoopRun ==
    /\ loop.cur = NoHandle /\ loop.todo > 0
    /\ LET hd == loop.ready[1]
           rest == [loop EXCEPT !.ready = Tail(@), !.todo = @ - 1]
       IN  IF hd = IoHandle
           THEN IF net.open
                THEN /\ net' = feed(net)
                     /\ loop' = IF net.waiter # NoHandle
                                THEN call_soon(rest, net.waiter)
                                ELSE rest
                ELSE /\ net' = net
                     /\ loop' = rest
           ELSE /\ loop' = [rest EXCEPT !.cur = hd]
                /\ net' = net
    /\ UNCHANGED <<mw, engine, peer, h11, h2, task, req, client, sendLog, recvLog>>

\* ---------------------------------------------------------- the H11 peer
\* An HTTP/1.1 server: it answers a request it has seen with a response
\* head, then the body the head announced, and it may close the connection
\* at any time.  What the peer has sent is seen by the program only when
\* the loop polls, so the peer's steps are taken at the poll (Polling):
\* sending during a coroutine's step is the same as sending right after it.

Polling == loop.cur = NoHandle /\ loop.todo = 0

PeerInit == [answered |-> 0, phase |-> "idle", kind |-> "-", sent |-> 0]

RequestsWritten == net.requests

H11PeerHead ==
    /\ engine = "h11" /\ Polling /\ net.open /\ ~net.wireEof
    /\ peer.phase = "idle" /\ peer.answered < RequestsWritten
    /\ \E kind \in {"framed", "nobody", "close"}, ka \in BOOLEAN :
          /\ net' = [net EXCEPT !.wire = Append(@, HeadUnit(kind, ka))]
          /\ peer' = IF kind = "nobody"
                     THEN [peer EXCEPT !.answered = @ + 1]
                     ELSE [peer EXCEPT !.phase = "body", !.kind = kind,
                                       !.sent = 0]
    /\ UNCHANGED <<mw, engine, loop, h11, h2, task, req, client, sendLog, recvLog>>

H11PeerData ==
    /\ engine = "h11" /\ Polling /\ net.open /\ ~net.wireEof
    /\ peer.phase = "body" /\ peer.sent < MaxData
    /\ net' = [net EXCEPT !.wire = Append(@, DataUnit)]
    /\ peer' = [peer EXCEPT !.sent = @ + 1]
    /\ UNCHANGED <<mw, engine, loop, h11, h2, task, req, client, sendLog, recvLog>>

H11PeerEnd ==
    /\ engine = "h11" /\ Polling /\ net.open /\ ~net.wireEof
    /\ peer.phase = "body" /\ peer.kind = "framed"
    /\ net' = [net EXCEPT !.wire = Append(@, EomUnit)]
    /\ peer' = [peer EXCEPT !.phase = "idle", !.answered = @ + 1]
    /\ UNCHANGED <<mw, engine, loop, h11, h2, task, req, client, sendLog, recvLog>>

PeerClose ==
    /\ Polling /\ net.open /\ ~net.wireEof
    /\ net' = [net EXCEPT !.wireEof = TRUE]
    /\ UNCHANGED <<mw, engine, loop, peer, h11, h2, task, req, client,
                   sendLog, recvLog>>

\* ----------------------------------------------------------- the H2 peer
\* An HTTP/2 server: on a stream whose request headers it has seen it sends
\* the response headers, DATA (padded or not), trailers, each possibly with
\* END_STREAM, or RST_STREAM; while a request body is unfinished it gives
\* back, with WINDOW_UPDATE on the stream or on the connection, the credit
\* of DATA bytes it has received.

H2PeerInit ==
    [phase |-> [s \in StreamIds |-> "idle"], sent |-> 0, updates |-> 0,
     granted |-> [s \in StreamIds \cup {NoneStream} |-> 0],
     goaway |-> FALSE]

\* the DATA bytes the peer has received on a stream, or on the connection
Received(s) ==
    IF s = NoneStream
    THEN h2.conn.credit[s] - h2.conn.out_window
    ELSE h2.conn.credit[s] - h2.conn.streams[s].out_window

Requested(s) == s < h2.conn.next_stream_id

PeerSends == Polling /\ net.open /\ ~net.wireEof /\ ~peer.goaway

H2PeerHeaders(s) ==
    /\ engine = "h2" /\ PeerSends
    /\ Requested(s) /\ peer.phase[s] = "idle"
    /\ \E end \in BOOLEAN :
          /\ net' = [net EXCEPT
                        !.wire = Append(@, Frame("headers", s, 0, 0, end))]
          /\ peer' = [peer EXCEPT !.phase[s] = IF end THEN "ended" ELSE "body"]
    /\ UNCHANGED <<mw, engine, loop, h11, h2, task, req, client, sendLog, recvLog>>

H2PeerData(s) ==
    /\ engine = "h2" /\ PeerSends
    /\ peer.phase[s] = "body" /\ peer.sent < MaxData
    /\ \E pad \in 0..1, end \in BOOLEAN :
          /\ net' = [net EXCEPT
                        !.wire = Append(@, Frame("data", s, 1, pad, end))]
          /\ peer' = [peer EXCEPT !.phase[s] = IF end THEN "ended" ELSE "body",
                                  !.sent = @ + 1]
    /\ UNCHANGED <<mw, engine, loop, h11, h2, task, req, client, sendLog, recvLog>>

H2PeerTrailers(s) ==
    /\ engine = "h2" /\ PeerSends
    /\ peer.phase[s] = "body"
    /\ net' = [net EXCEPT !.wire = Append(@, Frame("trailers", s, 0, 0, TRUE))]
    /\ peer' = [peer EXCEPT !.phase[s] = "ended"]
    /\ UNCHANGED <<mw, engine, loop, h11, h2, task, req, client, sendLog, recvLog>>

H2PeerReset(s) ==
    /\ engine = "h2" /\ PeerSends
    /\ Requested(s) /\ peer.phase[s] \in {"idle", "body"}
    /\ net' = [net EXCEPT !.wire = Append(@, Frame("rst", s, 0, 0, FALSE))]
    /\ peer' = [peer EXCEPT !.phase[s] = "reset"]
    /\ UNCHANGED <<mw, engine, loop, h11, h2, task, req, client, sendLog, recvLog>>

H2PeerWindowUpdate(s) ==
    /\ engine = "h2" /\ PeerSends
    /\ peer.updates < MaxWindowUpdates
    /\ h2.initialized
    /\ peer.granted[s] < Received(s)
    /\ \E t \in StreamIds :
          /\ s \in {NoneStream, t}
          /\ Requested(t) /\ peer.phase[t] # "reset"
          /\ h2.conn.streams[t].state \in {"open", "half_closed_remote"}
    /\ net' = [net EXCEPT !.wire = Append(@, Frame("window", s, 1, 0, FALSE))]
    /\ peer' = [peer EXCEPT !.updates = @ + 1, !.granted[s] = @ + 1]
    /\ UNCHANGED <<mw, engine, loop, h11, h2, task, req, client, sendLog, recvLog>>


\* GOAWAY while a stream is unanswered; the peer sends no frame after it
H2PeerGoAway ==
    /\ engine = "h2" /\ PeerSends
    /\ \E s \in StreamIds : Requested(s) /\ peer.phase[s] \in {"idle", "body"}
    /\ net' = [net EXCEPT
                  !.wire = Append(@, Frame("goaway", NoneStream, 0, 0, FALSE))]
    /\ peer' = [peer EXCEPT !.goaway = TRUE]
    /\ UNCHANGED <<mw, engine, loop, h11, h2, task, req, client, sendLog, recvLog>>

\* ----------------------------------------------------------- CONNECT tunnel
\* Requester.establish_tunnel (src/bareclient/acgi/requester.py) over the
\* engine that talks to the proxy, an H11Protocol on a plain connection.
\* net.tls says that writer.start_tls has been called; peer.status is the
\* status of the answer the proxy has sent (0 before it answers).

\* the statuses a proxy answers CONNECT with
ProxyStatuses == {200, 204, 407, 502}

ProxyInit ==
    [answered |-> 0, phase |-> "idle", kind |-> "-", sent |-> 0, status |-> 0]

\* lines 211-212: the ports of the schemes
DefaultHttpPort == 80
DefaultHttpsPort == 443

\* the targets of a tunnel: connection_details, its port None (no value) or
\* an explicit one
TunnelTargets ==
    [scheme : {"http", "https"}, hostname : {"t"},
     port : {<<>>, <<80>>, <<443>>, <<8080>>}]

\* lines 209-213: `port or 80 if scheme == 'http' else 443` is the
\* conditional expression `(port or 80) if scheme == 'http' else 443`
connect_port(connection_details) ==
    IF connection_details.scheme = "http"
    THEN IF connection_details.port # <<>> /\ connection_details.port[1] # 0
         THEN connection_details.port[1]
         ELSE DefaultHttpPort
    ELSE DefaultHttpsPort

\* lines 214-227: the request; its path is f"{hostname}:{port}"
connect_request(connection_details) ==
    [method |-> "CONNECT",
     host |-> connection_details.hostname,
     scheme |-> connection_details.scheme,
     path |-> <<connection_details.hostname,
                connect_port(connection_details)>>,
     headers |-> << <<"host", connection_details.hostname>> >>]

\* lines 209-228: the CONNECT request, without a body, is sent
TunnelRequest ==
    /\ client = "new"
    /\ client' = "tunnelling"
    /\ net' = [net EXCEPT !.open = TRUE]
    /\ loop' = [loop EXCEPT !.cur = ReqHandle]
    /\ req' = [req EXCEPT !.pc = "send_request", !.ret = "receive",
                          !.rret = "start_tls",
                          !.out = Yield(NoneBody, FALSE)]
    /\ sendLog' = Logged(sendLog, HttpRequest(NoneBody, FALSE))
    /\ \E connection_details \in TunnelTargets :
          mw' = [kind |-> "connect",
                 connection_details |-> connection_details,
                 http_request |-> connect_request(connection_details)]
    /\ UNCHANGED <<engine, peer, h11, h2, task, recvLog>>

\* lines 229-236: whatever receive() returned first is taken for the
\* connection message, and start_tls is awaited
TunnelStartTls ==
    /\ Running(ReqHandle) /\ req.pc = "start_tls"
    /\ net' = [net EXCEPT !.tls = TRUE]
    /\ req' = [req EXCEPT !.pc = "negotiated", !.wait = "user"]
    /\ loop' = suspend(loop)
    /\ UNCHANGED <<mw, engine, peer, h11, h2, task, client, sendLog, recvLog>>

\* lines 238-254: the engine for the protocol negotiated with the target
TunnelProtocol ==
    /\ Running(ReqHandle) /\ req.pc = "negotiated"
    /\ \E negotiated_protocol \in {"h2", "h11"} :
          req' = [req EXCEPT !.pc = "end", !.after = negotiated_protocol]
    /\ client' = "tunnelled"
    /\ loop' = suspend(loop)
    /\ UNCHANGED <<mw, engine, net, peer, h11, h2, task, sendLog, recvLog>>

\* the proxy answers the CONNECT it has seen
ProxyHead ==
    /\ engine = "h11" /\ Polling /\ net.open /\ ~net.wireEof
    /\ peer.phase = "idle" /\ peer.answered < RequestsWritten
    /\ \E status \in ProxyStatuses, kind \in {"framed", "nobody", "close"},
          ka \in BOOLEAN :
          /\ (status \in 200..299) => kind = "nobody"
          /\ net' = [net EXCEPT !.wire = Append(@, HeadUnit(kind, ka))]
          /\ peer' = IF kind = "nobody"
                     THEN [peer EXCEPT !.answered = @ + 1, !.status = status]
                     ELSE [peer EXCEPT !.phase = "body", !.kind = kind,
                                       !.sent = 0, !.status = status]
    /\ UNCHANGED <<mw, engine, loop, h11, h2, task, req, client, sendLog, recvLog>>

\* ------------------------------------------------------- session cookies
\* src/bareclient/middlewares/session.py.  A cookie is the dictionary
\* header.set_cookie parses: name, value, and the attributes it has; an
\* absent domain or path is b'' (<<>>), as cookie.get(..., b'') reads it.  A
\* dict is the sequence of its values in insertion order.  Domains and paths
\* are strings over a small alphabet, times are 0..MaxTime.

CookieNames == {"a", "b"}
CookieDomains == {<<>>, <<"c">>, <<"w", "c">>}
CookiePaths == {<<>>, <<"f">>}
RequestDomains == {<<"c">>, <<"w", "c">>}
RequestPaths == {<<>>, <<"f">>}
Schemes == {"http", "https"}

\* the set-cookie headers of a response, parsed: no expiry, an expires
\* time, or a max_age
SetCookies ==
    {[name |-> n, value |-> 0, domain |-> d, path |-> p, secure |-> sec,
      has_expires |-> he, expires |-> e, has_max_age |-> hm, max_age |-> m,
      creation_time |-> 0, persistant |-> FALSE,
      has_last_access_time |-> FALSE, last_access_time |-> 0] :
        n \in CookieNames, d \in CookieDomains, p \in CookiePaths,
        sec \in BOOLEAN, he \in BOOLEAN, e \in 0..1, hm \in BOOLEAN,
        m \in 0..1}

\* one of each kind of expiry: none, expires at 1, max_age 1
Expiries(c) ==
    \/ ~c.has_expires /\ ~c.has_max_age /\ c.expires = 0 /\ c.max_age = 0
    \/ c.has_expires /\ ~c.has_max_age /\ c.expires = 1 /\ c.max_age = 0
    \/ ~c.has_expires /\ c.has_max_age /\ c.expires = 0 /\ c.max_age = 1

\* bytes.endswith and bytes.startswith
endswith(s, d) ==
    Len(d) <= Len(s) /\ SubSeq(s, Len(s) - Len(d) + 1, Len(s)) = d
startswith(s, p) == Len(p) <= Len(s) /\ SubSeq(s, 1, Len(p)) = p

\* header.set_cookie: the cookies of the set-cookie headers grouped by name,
\* names in the order of their first header; iterating the mapping visits
\* them in that order
RECURSIVE set_cookie(_)
set_cookie(hs) ==
    IF hs = <<>> THEN <<>>
    ELSE SelectSeq(hs, LAMBDA c : c.name = hs[1].name)
         \o set_cookie(SelectSeq(hs, LAMBDA c : c.name # hs[1].name))

\* the key of a cache entry, line 48
cookie_key(c) == <<c.name, c.domain, c.path>>

\* d[key] = c on a dict kept as the sequence of its values: an existing key
\* keeps its place
dict_set(d, Key(_), c) ==
    IF \E i \in 1..Len(d) : Key(d[i]) = Key(c)
    THEN [i \in 1..Len(d) |-> IF Key(d[i]) = Key(c) THEN c ELSE d[i]]
    ELSE Append(d, c)

\* Not the code: cached entries are kept whatever their expiry.
is_current_always(cookie, now) == TRUE

\* extract_cookies, line 36: the cached entries that are kept
is_current(cookie, now) == ~cookie.has_expires \/ cookie.expires > now

\* extract_cookies, lines 41-42: permanent cookies get a timestamp
with_expires(cookie, now) ==
    IF cookie.has_max_age /\ ~cookie.has_expires
    THEN [cookie EXCEPT !.has_expires = TRUE, !.expires = now + cookie.max_age]
    ELSE cookie

\* extract_cookies, lines 38-51: the loop over the new cookies
RECURSIVE extract_loop(_, _, _)
extract_loop(current_cookies, cookies, now) ==
    IF cookies = <<>> THEN current_cookies
    ELSE LET cookie == with_expires(cookies[1], now)
         IN  IF cookie.has_expires /\ cookie.expires < now
             THEN extract_loop(current_cookies, Tail(cookies), now)
             ELSE extract_loop(
                      dict_set(current_cookies, cookie_key,
                               [cookie EXCEPT !.creation_time = now,
                                              !.persistant = cookie.has_expires]),
                      Tail(cookies), now)

\* extract_cookies(cookie_cache, header_cookies, now)
extract_cookies(cookie_cache, header_cookies, now) ==
    extract_loop(SelectSeq(cookie_cache, LAMBDA c : is_current(c, now)),
                 header_cookies, now)

\* Not the code: a secure cookie goes out over any scheme.
skipped_not_secure(cookie, rq) ==
    \/ cookie.domain # <<>> /\ ~endswith(rq.domain, cookie.domain)
    \/ cookie.path # <<>> /\ ~startswith(rq.path, cookie.path)

\* gather_cookies, lines 80-89: the entries a request does not get
skipped(cookie, rq) ==
    \/ cookie.secure /\ rq.scheme # "https"
    \/ cookie.domain # <<>> /\ ~endswith(rq.domain, cookie.domain)
    \/ cookie.path # <<>> /\ ~startswith(rq.path, cookie.path)

\* cookie['name'], used as the key of the cookies gathered
cookie_name(c) == c.name

\* gather_cookies, lines 91-103: with a cookie of this name gathered
\* already, whether this one is passed over.  domain and path are those of
\* this cookie, as they are in the code.
passed_over(current_cookie, cookie) ==
    LET domain == cookie.domain
        path == cookie.path
    IN  \/ domain # <<>> /\ (cookie.domain = <<>>
                              \/ Len(domain) < Len(cookie.domain))
        \/ path # <<>> /\ (cookie.path = <<>> \/ Len(path) < Len(cookie.path))
        \/ current_cookie.creation_time < cookie.creation_time

\* gather_cookies, lines 75-105: the loop over cookie_cache.items() from
\* its i-th item.  Deleting an item changes the size of the dict, and the
\* iterator raises RuntimeError when it is asked for the next item.
RECURSIVE gather_loop(_, _, _, _, _)
gather_loop(cookie_cache, i, cookies, rq, now) ==
    IF i > Len(cookie_cache)
    THEN [cookie_cache |-> cookie_cache, cookies |-> cookies, raised |-> FALSE]
    ELSE LET cookie == cookie_cache[i]
             same == SelectSeq(cookies, LAMBDA c : c.name = cookie.name)
         IN  IF cookie.has_expires /\ cookie.expires < now
             THEN [cookie_cache |->
                       SubSeq(cookie_cache, 1, i - 1)
                       \o SubSeq(cookie_cache, i + 1, Len(cookie_cache)),
                   cookies |-> cookies, raised |-> TRUE]
             ELSE IF skipped(cookie, rq)
             THEN gather_loop(cookie_cache, i + 1, cookies, rq, now)
             ELSE IF same # <<>> /\ passed_over(same[1], cookie)
             THEN gather_loop(cookie_cache, i + 1, cookies, rq, now)
             ELSE gather_loop(cookie_cache, i + 1,
                              dict_set(cookies, cookie_name, cookie), rq, now)

\* bareutils.cookies.encode_cookies: the name=value pairs in the order of
\* the dict
encode_cookies(cookies) ==
    [i \in 1..Len(cookies) |-> <<cookies[i].name, cookies[i].value>>]

\* gather_cookies(cookie_cache, scheme, domain, path, now): the header, and
\* the cache with what the call did to it (evictions, last_access_time on
\* the cookies gathered, which are the cached dictionaries themselves)
gather_cookies(cookie_cache, rq, now) ==
    LET g == gather_loop(cookie_cache, 1, <<>>, rq, now)
        stamped(c) == [c EXCEPT !.has_last_access_time = TRUE,
                                !.last_access_time = now]
    IN  IF g.raised
        THEN [cookie_cache |-> g.cookie_cache, raised |-> TRUE,
              header |-> <<>>]
        ELSE [cookie_cache |->
                  [i \in 1..Len(g.cookie_cache) |->
                      IF \E j \in 1..Len(g.cookies) :
                             g.cookies[j] = g.cookie_cache[i]
                      THEN stamped(g.cookie_cache[i])
                      ELSE g.cookie_cache[i]],
              raised |-> FALSE,
              header |-> encode_cookies(g.cookies)]

\* SessionMiddleware: self.cookies, the time of the last call, and the last
\* call made: its arguments, the cache it was given, what it returned
NoRequest == [scheme |-> "http", domain |-> <<>>, path |-> <<>>]

SessionInit ==
    [kind |-> "session", cookies |-> <<>>, now |-> 0, op |-> "init",
     before |-> <<>>, header_cookies |-> <<>>, request |-> NoRequest,
     header |-> <<>>, raised |-> FALSE, seen |-> 0, gathers |-> 0]

\* SessionMiddleware._process_response: the set-cookie headers of a
\* response are extracted at time now; the k-th cookie the session sees has
\* the value k
Extract ==
    /\ mw.kind = "session"
    /\ \E n \in 1..(MaxCookies - mw.seen), now \in mw.now..MaxTime :
          \E hs \in [1..n -> {c \in SetCookies : Expiries(c)}] :
              LET headers == [i \in 1..n |->
                                 [hs[i] EXCEPT !.value = mw.seen + i]]
              IN  mw' = [mw EXCEPT
                            !.op = "extract", !.now = now,
                            !.before = mw.cookies,
                            !.header_cookies = set_cookie(headers),
                            !.request = NoRequest, !.header = <<>>,
                            !.raised = FALSE,
                            !.seen = @ + n,
                            !.cookies = extract_cookies(
                                            mw.cookies, set_cookie(headers),
                                            now)]
    /\ UNCHANGED <<engine, loop, net, peer, h11, h2, task, req, client,
                   sendLog, recvLog>>

\* SessionMiddleware._prepare_request: the cookie header of a request is
\* gathered at time now
Gather ==
    /\ mw.kind = "session" /\ mw.gathers < MaxGathers
    /\ \E scheme \in Schemes, domain \in RequestDomains,
          path \in RequestPaths, now \in mw.now..MaxTime :
          LET rq == [scheme |-> scheme, domain |-> domain, path |-> path]
              g == gather_cookies(mw.cookies, rq, now)
          IN  mw' = [mw EXCEPT
                        !.op = "gather", !.now = now,
                        !.before = mw.cookies, !.header_cookies = <<>>,
                        !.request = rq, !.header = g.header,
                        !.raised = g.raised,
                        !.gathers = @ + 1,
                        !.cookies = g.cookie_cache]
    /\ UNCHANGED <<engine, loop, net, peer, h11, h2, task, req, client,
                   sendLog, recvLog>>

\* Two requests that run concurrently through one SessionMiddleware
\* (__call__, lines 158-168): each takes now at its start, gathers the
\* cookie header, awaits the handler, and extracts the cookies of its
\* response with the same now.  The steps of the two interleave at the await.

\* the set-cookie header of a response: one cookie for the request domain
ConcurrentSetCookies ==
    {c \in SetCookies :
        /\ Expiries(c) /\ ~c.secure /\ c.path = <<>>
        /\ c.domain \in {<<>>, <<"c">>}}

ConcurrentRequest == [scheme |-> "https", domain |-> <<"c">>, path |-> <<>>]

ConcurrentInit ==
    [kind |-> "concurrent", cookies |-> <<>>, clock |-> 0,
     pc |-> [r \in Requesters |-> "idle"],
     now |-> [r \in Requesters |-> 0],
     set |-> [r \in Requesters |-> <<>>]]

\* Not the code: the cookies of a response replace the jar.
session_jar_emptied(m) == <<>>

\* _process_response, line 156: self.cookies as it is when the response is
\* processed
session_jar(m) == m.cookies

\* __call__, lines 163-166: now, _prepare_request, and the await of the
\* handler
ConcurrentCall(r) ==
    /\ mw.kind = "concurrent" /\ mw.pc[r] = "idle"
    /\ LET g == gather_cookies(mw.cookies, ConcurrentRequest, mw.clock)
       IN  mw' = [mw EXCEPT !.now[r] = mw.clock,
                            !.cookies = g.cookie_cache,
                            !.pc[r] = IF g.raised THEN "raised" ELSE "sent"]
    /\ UNCHANGED <<engine, loop, net, peer, h11, h2, task, req, client,
                   sendLog, recvLog>>

\* __call__, lines 166-167: the handler has returned the response, whose
\* cookie has the number of the request as its value
ConcurrentReturn(r) ==
    /\ mw.kind = "concurrent" /\ mw.pc[r] = "sent"
    /\ \E c \in ConcurrentSetCookies :
          LET headers == <<[c EXCEPT !.value = r]>>
          IN  mw' = [mw EXCEPT
                        !.set[r] = headers,
                        !.cookies = extract_cookies(session_jar(mw),
                                                    set_cookie(headers),
                                                    mw.now[r]),
                        !.pc[r] = "done"]
    /\ UNCHANGED <<engine, loop, net, peer, h11, h2, task, req, client,
                   sendLog, recvLog>>

\* time passes
ConcurrentTick ==
    /\ mw.kind = "concurrent" /\ mw.clock < MaxTime
    /\ mw' = [mw EXCEPT !.clock = @ + 1]
    /\ UNCHANGED <<engine, loop, net, peer, h11, h2, task, req, client,
                   sendLog, recvLog>>

\* HttpSession (session.py): self.headers, self.cookies, and the headers the
\* last request gave its HttpClient.  A header is <<name, value>>; a list
\* is an object, so two names can hold the same list.

DefaultHeaders == {<<>>, <<<<"accept", <<>>>>>>}
OwnHeaders == {<<>>, <<<<"range", <<>>>>>>}

HttpSessionInit(headers) ==
    [kind |-> "httpsession", given |-> headers, headers |-> headers,
     cookies |-> <<>>, clock |-> 0, op |-> "init", sent |-> <<>>,
     header |-> <<>>, requests |-> 0, seen |-> 0]

\* Not the code: the default headers are copied for every request.
combine_copied(session_headers, headers) ==
    [list |-> session_headers \o headers, same |-> FALSE]

\* request, lines 180-182: combined_headers is self.headers itself unless
\* the request has headers of its own, which make a new list
combine(session_headers, headers) ==
    IF headers # <<>>
    THEN [list |-> session_headers \o headers, same |-> FALSE]
    ELSE [list |-> session_headers, same |-> TRUE]

\* HttpSession.request, lines 177-213
HttpSessionRequest ==
    /\ mw.kind = "httpsession" /\ mw.requests < MaxRequests
    /\ \E headers \in OwnHeaders, path \in RequestPaths :
          LET combined_headers == combine(mw.headers, headers)
              rq == [scheme |-> "https", domain |-> <<"c">>, path |-> path]
              g == gather_cookies(mw.cookies, rq, mw.clock)
              appended == Append(combined_headers.list, <<"cookie", g.header>>)
          IN  IF g.raised
              THEN mw' = [mw EXCEPT !.op = "raised", !.requests = @ + 1,
                                    !.cookies = g.cookie_cache,
                                    !.sent = <<>>, !.header = <<>>]
              ELSE IF g.header # <<>>
              THEN mw' = [mw EXCEPT
                             !.op = "request", !.requests = @ + 1,
                             !.cookies = g.cookie_cache,
                             !.header = g.header, !.sent = appended,
                             !.headers = IF combined_headers.same
                                         THEN appended ELSE @]
              ELSE mw' = [mw EXCEPT
                             !.op = "request", !.requests = @ + 1,
                             !.cookies = g.cookie_cache,
                             !.header = <<>>,
                             !.sent = combined_headers.list]
    /\ UNCHANGED <<engine, loop, net, peer, h11, h2, task, req, client,
                   sendLog, recvLog>>

\* HttpSession._extract_cookies, lines 215-219: the cookies of a response
HttpSessionResponse ==
    /\ mw.kind = "httpsession" /\ mw.seen < MaxCookies
    /\ \E c \in ConcurrentSetCookies :
          LET headers == <<[c EXCEPT !.value = mw.seen + 1]>>
          IN  mw' = [mw EXCEPT
                        !.op = "response", !.seen = @ + 1,
                        !.cookies = extract_cookies(mw.cookies,
                                                    set_cookie(headers),
                                                    mw.clock)]
    /\ UNCHANGED <<engine, loop, net, peer, h11, h2, task, req, client,
                   sendLog, recvLog>>

\* time passes
HttpSessionTick ==
    /\ mw.kind = "httpsession" /\ mw.clock < MaxTime
    /\ mw' = [mw EXCEPT !.clock = @ + 1]
    /\ UNCHANGED <<engine, loop, net, peer, h11, h2, task, req, client,
                   sendLog, recvLog>>

\* The http.response message of H2Protocol._receive_response (lines
\* 229-247) with its status and headers.  A header name is a sequence of
\* characters, a status value a sequence of digits.

StatusName == <<":", "s", "t", "a", "t", "u", "s">>
StatusValues == {<<"2", "0", "0">>, <<"2", "0", "4">>, <<"4", "0", "4">>}
FieldNames == {<<"a">>, <<"b">>}
FieldValues == {<<"1">>, <<"2">>}

\* the ResponseReceived events h2 emits: the :status pseudo-header first,
\* then the fields; stream_ended is the StreamEnded event that came with
\* the headers, if one did
ResponseReceivedEvents ==
    {[stream_id |-> sid, stream_ended |-> ended,
      headers |-> <<<<StatusName, status>>>> \o fields] :
        sid \in {1, 3}, ended \in BOOLEAN, status \in StatusValues,
        fields \in SeqsUpTo(FieldNames \X FieldValues, MaxHeaders)}

\* the value of a decimal digit
Digits == <<"0", "1", "2", "3", "4", "5", "6", "7", "8", "9">>
digit(c) == (CHOOSE k \in 1..Len(Digits) : Digits[k] = c) - 1

\* int(value) of a sequence of decimal digits
RECURSIVE int(_)
int(value) ==
    IF value = <<>> THEN 0
    ELSE 10 * int(SubSeq(value, 1, Len(value) - 1)) + digit(value[Len(value)])

\* Not the code: every response has more body to come.
stream_open_always(event) == TRUE

\* line 245: event.stream_ended is None
stream_open(event) == ~event.stream_ended

\* lines 229-234: the loop over event.headers
RECURSIVE response_head(_, _, _)
response_head(headers, status_code, kept) ==
    IF headers = <<>> THEN [status_code |-> status_code, headers |-> kept]
    ELSE IF Head(headers)[1] = StatusName
    THEN response_head(Tail(headers), int(Head(headers)[2]), kept)
    ELSE IF ~startswith(Head(headers)[1], <<":">>)
    THEN response_head(Tail(headers), status_code, Append(kept, Head(headers)))
    ELSE response_head(Tail(headers), status_code, kept)

\* lines 236-247: the message put on the queue
http_response(event) ==
    LET head == response_head(event.headers, 200, <<>>)
    IN  [type |-> "http.response", http_version |-> "2",
         status_code |-> head.status_code, headers |-> head.headers,
         more_body |-> stream_open(event), stream_id |-> event.stream_id]

NoEvent == [stream_id |-> NoneStream, stream_ended |-> FALSE, headers |-> <<>>]

H2ResponseInit ==
    [kind |-> "h2_response", op |-> "init", event |-> NoEvent,
     message |-> http_response(NoEvent), received |-> 0]

\* _receive_response with the ResponseReceived event it waited for
H2ResponseReceived ==
    /\ mw.kind = "h2_response" /\ mw.received < MaxRequests
    /\ \E event \in ResponseReceivedEvents :
          mw' = [mw EXCEPT !.op = "received", !.event = event,
                           !.message = http_response(event),
                           !.received = @ + 1]
    /\ UNCHANGED <<engine, loop, net, peer, h11, h2, task, req, client,
                   sendLog, recvLog>>

\* The head of an H11 response as _receive_response turns it into the
\* http.response message (lines 142-159), and the Response the Requester
\* makes of it (requester.py, lines 152-171).  h11 gives the header names
\* in lower case, lets one content-length of decimal digits through, and
\* no transfer-encoding but chunked.

Chunked == <<"c", "h", "u", "n", "k", "e", "d">>
LengthValues == {<<"0">>, <<"0", "0">>, <<"5">>, <<"1", "0">>}

H11Headers ==
    {<<"content-length", v>> : v \in LengthValues}
        \cup {<<"transfer-encoding", Chunked>>}
        \cup {<<"server", v>> : v \in {<<"5">>, Chunked}}

Named(headers, name) == {k \in 1..Len(headers) : headers[k][1] = name}

H11ResponseHeads ==
    {hs \in SeqsUpTo(H11Headers, MaxHeaders) :
        /\ Cardinality(Named(hs, "content-length")) <= 1
        /\ Cardinality(Named(hs, "transfer-encoding")) <= 1}

\* Not the code: any content-length announces a body.
length_present(value) == TRUE

\* line 144: `int(value)` as a condition
length_given(value) == int(value) # 0

\* lines 142-147: the loop over event.headers
RECURSIVE headers_more_body(_, _)
headers_more_body(headers, more_body) ==
    IF headers = <<>> THEN more_body
    ELSE IF Head(headers)[1] = "content-length" /\ length_given(Head(headers)[2])
    THEN headers_more_body(Tail(headers), TRUE)
    ELSE IF Head(headers)[1] = "transfer-encoding" /\ Head(headers)[2] = Chunked
    THEN headers_more_body(Tail(headers), TRUE)
    ELSE headers_more_body(Tail(headers), more_body)

\* lines 149-159: the http.response message
h11_http_response(status_code, headers) ==
    [type |-> "http.response", http_version |-> "1.1",
     status_code |-> status_code, headers |-> headers,
     more_body |-> headers_more_body(headers, FALSE),
     stream_id |-> NoneStream]

\* requester.py, lines 158-168: the Response, its body the body reader or
\* None
make_response(message) ==
    [status_code |-> message.status_code,
     headers |-> message.headers,
     body |-> IF message.more_body THEN "body_reader" ELSE "None"]

NoResponse == [status_code |-> 0, headers |-> <<>>, body |-> "None"]

H11HeadInit ==
    [kind |-> "h11_head", op |-> "init",
     message |-> h11_http_response(0, <<>>), response |-> NoResponse,
     receives |-> 0]

\* _receive_response with the h11.Response event of a head
H11HeadReceived ==
    /\ mw.kind = "h11_head" /\ mw.op = "init"
    /\ \E status_code \in {200, 204}, headers \in H11ResponseHeads :
          mw' = [mw EXCEPT !.op = "received",
                           !.message = h11_http_response(status_code, headers)]
    /\ UNCHANGED <<engine, loop, net, peer, h11, h2, task, req, client,
                   sendLog, recvLog>>

\* Requester._process_response: receive() returns the message
H11HeadProcessed ==
    /\ mw.kind = "h11_head" /\ mw.op = "received"
    /\ mw' = [mw EXCEPT !.op = "response",
                        !.response = make_response(mw.message),
                        !.receives = @ + 1]
    /\ UNCHANGED <<engine, loop, net, peer, h11, h2, task, req, client,
                   sendLog, recvLog>>

\* the user iterates response.body: _body_reader calls receive() for a
\* body frame
H11HeadBodyRead ==
    /\ mw.kind = "h11_head" /\ mw.op \in {"response", "body"}
    /\ mw.response.body = "body_reader"
    /\ mw.receives <= MaxData
    /\ mw' = [mw EXCEPT !.op = "body", !.receives = @ + 1]
    /\ UNCHANGED <<engine, loop, net, peer, h11, h2, task, req, client,
                   sendLog, recvLog>>

\* The two body writers run over the same content: that of the Requester
\* (acgi/requester.py) and that of RequestHandlerInstance (requester.py),
\* each resumed by its consumer until it stops.

WritersInit(content) ==
    [kind |-> "writers", content |-> content,
     gen |-> BodyWriterInit, yielded |-> <<>>, stopped |-> FALSE,
     hgen |-> HandlerWriterInit, hyielded |-> <<>>, hstopped |-> FALSE]

\* acgi/requester.py, lines 120 and 142: anext of the Requester's writer
WriterNext ==
    /\ mw.kind = "writers" /\ ~mw.stopped
    /\ LET w == make_body_writer(mw.gen, mw.content)
       IN  mw' = [mw EXCEPT
                     !.gen = w.gen,
                     !.stopped = w.out.stop,
                     !.yielded = IF w.out.stop THEN @
                                 ELSE Append(@, <<w.out.body, w.out.more_body>>)]
    /\ UNCHANGED <<engine, loop, net, peer, h11, h2, task, req, client,
                   sendLog, recvLog>>

\* requester.py, lines 160 and 181: anext of the handler's writer
HandlerWriterNext ==
    /\ mw.kind = "writers" /\ ~mw.hstopped
    /\ LET w == handler_make_body_writer(mw.hgen, mw.content)
       IN  mw' = [mw EXCEPT
                     !.hgen = w.gen,
                     !.hstopped = w.out.stop,
                     !.hyielded = IF w.out.stop THEN @
                                  ELSE Append(@, <<w.out.body, w.out.more_body>>)]
    /\ UNCHANGED <<engine, loop, net, peer, h11, h2, task, req, client,
                   sendLog, recvLog>>

\* ------------------------------------------------------ middleware chain
\* RequesterInstance.process (acgi/requester.py) makes a chain of the
\* middlewares with make_middleware_chain (middleware.py) and calls it with
\* the request.  A callable of the chain is called with a number of
\* positional arguments: the Request alone, or host, scheme, path, method,
\* headers and content.

\* chain(request); the parameter of SessionMiddleware.__call__ and of
\* RequesterInstance._process
RequestArgs == 1
\* the parameters of _call_handler after the handler; those of
\* basic_auth_middleware and compression_middleware before the handler
CallbackArgs == 6

\* a middleware: how many positional arguments it takes before `handler`,
\* and the call it makes of `handler`, given by its number of arguments
\* (none: it returns a response of its own)
Middlewares ==
    [params : {RequestArgs, CallbackArgs},
     calls : {<<>>, <<RequestArgs>>, <<CallbackArgs>>}]

\* SessionMiddleware.__call__(request, handler): `await handler(request)`
SessionMiddleware == [params |-> RequestArgs, calls |-> <<RequestArgs>>]
\* basic_auth_middleware and compression_middleware:
\* `await handler(host, scheme, path, method, headers, content)`
CallbackMiddleware == [params |-> CallbackArgs, calls |-> <<CallbackArgs>>]

\* make_middleware_chain: callable i of the chain is
\* partial(handlers[i], handler=partial(_call_handler, callable i + 1)), and
\* the callable after the last one is the final handler, _process.  The
\* chain itself is callable 1.
make_middleware_chain(handlers) ==
    [i \in 1..Len(handlers) |->
        [middleware |-> handlers[i], handler |-> i + 1]]

ChainInit(handlers) ==
    [kind |-> "chain", chain |-> make_middleware_chain(handlers),
     pc |-> "new", at |-> 0, entered |-> <<>>, invoked |-> <<>>,
     returned |-> <<>>, core |-> FALSE]

\* callable i of chain m.chain is called with nargs positional arguments:
\* Python binds them to the parameters of the middleware, or of _process
\* after the last middleware, and raises TypeError when they do not fit
chain_call(m, i, nargs) ==
    IF i > Len(m.chain)
    THEN IF nargs = RequestArgs
         THEN [m EXCEPT !.pc = "core", !.at = i, !.core = TRUE]
         ELSE [m EXCEPT !.pc = "raised"]
    ELSE IF nargs = m.chain[i].middleware.params
         THEN [m EXCEPT !.pc = "running", !.at = i,
                        !.entered = Append(@, i)]
         ELSE [m EXCEPT !.pc = "raised"]

\* partial(_call_handler, callable i) is called with nargs positional
\* arguments: _call_handler(handler, host, scheme, path, method, headers,
\* content) awaits handler(host, scheme, path, method, headers, content)
call_handler(m, i, nargs) ==
    IF nargs = CallbackArgs
    THEN chain_call(m, i, CallbackArgs)
    ELSE [m EXCEPT !.pc = "raised"]

\* what the requesting coroutine does after a call in the chain: it raises
\* the TypeError (no middleware of the model handles it), runs _process,
\* or goes on in the middleware
chain_req(m) ==
    CASE m.pc = "raised" -> Raise("TypeError")
      [] m.pc = "core" -> [req EXCEPT !.pc = "process_request"]
      [] OTHER -> req

\* connect() and RequesterInstance.process: the connection is opened, the
\* chain is made and called with the request
ChainProcess ==
    /\ client = "new" /\ mw.pc = "new"
    /\ client' = "entering"
    /\ net' = [net EXCEPT !.open = TRUE]
    /\ loop' = [loop EXCEPT !.cur = ReqHandle]
    /\ mw' = chain_call(mw, 1, RequestArgs)
    /\ req' = [chain_req(mw') EXCEPT !.at = "chain"]
    /\ UNCHANGED <<engine, peer, h11, h2, task, sendLog, recvLog>>

\* the middleware that runs calls its handler
MiddlewareNext ==
    /\ Running(ReqHandle) /\ mw.pc = "running"
    /\ LET link == mw.chain[mw.at]
       IN  /\ link.middleware.calls # <<>>
           /\ mw' = call_handler([mw EXCEPT !.invoked = Append(@, mw.at)],
                                 link.handler, link.middleware.calls[1])
    /\ req' = [chain_req(mw') EXCEPT !.at = "chain"]
    /\ UNCHANGED <<engine, loop, net, peer, h11, h2, task, client,
                   sendLog, recvLog>>

\* a middleware returns a response: one of its own (it does not call its
\* handler), or the one its handler returned.  The first middleware returns
\* it to process, which returns it to the user.
MiddlewareReturn ==
    /\ Running(ReqHandle)
    /\ \/ mw.pc = "running" /\ mw.chain[mw.at].middleware.calls = <<>>
       \/ mw.pc = "returning"
    /\ mw' = [mw EXCEPT !.returned = Append(@, mw.at), !.at = @ - 1,
                        !.pc = IF mw.at = 1 THEN "done" ELSE "returning"]
    /\ IF mw.at = 1
       THEN /\ req' = [req EXCEPT !.pc = "in_scope"]
            /\ client' = "entered"
       ELSE UNCHANGED <<req, client>>
    /\ UNCHANGED <<engine, loop, net, peer, h11, h2, task, sendLog, recvLog>>

\* ---------------------------------------------------- basic authorization
\* src/bareclient/middlewares/basic_authorization.py.  Header names are
\* strings, header values and credentials are sequences of ASCII codes.

\* base64.b64encode: the character of a 6 bit group, '=' for padding
b64char(i) ==
    CASE i < 26 -> 65 + i
      [] i < 52 -> 97 + (i - 26)
      [] i < 62 -> 48 + (i - 52)
      [] i = 62 -> 43
      [] OTHER -> 47

RECURSIVE b64encode(_)
b64encode(bs) ==
    CASE Len(bs) = 0 -> <<>>
      [] Len(bs) = 1 ->
            LET n == bs[1] * 65536
            IN  <<b64char(n \div 262144), b64char((n \div 4096) % 64), 61, 61>>
      [] Len(bs) = 2 ->
            LET n == bs[1] * 65536 + bs[2] * 256
            IN  <<b64char(n \div 262144), b64char((n \div 4096) % 64),
                  b64char((n \div 64) % 64), 61>>
      [] OTHER ->
            LET n == bs[1] * 65536 + bs[2] * 256 + bs[3]
            IN  <<b64char(n \div 262144), b64char((n \div 4096) % 64),
                  b64char((n \div 64) % 64), b64char(n % 64)>>
                \o b64encode(SubSeq(bs, 4, Len(bs)))

\* lines 32-35: b'Basic ' + b64encode(f"{username}:{password}")
authorization_headers(username, password) ==
    << <<"authorization",
         <<66, 97, 115, 105, 99, 32>>
         \o b64encode(username \o <<58>> \o password)>> >>

\* line 46: headers = headers + authorization_headers
basic_auth_headers(headers, auth) == headers \o auth

\* the user names and passwords a middleware is created with: "", "u", "us"
\* and "", "p"
Usernames == {<<>>, <<117>>, <<117, 115>>}
Passwords == {<<>>, <<112>>}

\* the headers of the requests: another authorization, a host, an accept,
\* a cookie
RequestHeaders ==
    {<<"authorization", <<120>>>>, <<"host", <<104>>>>,
     <<"accept", <<42>>>>, <<"cookie", <<99>>>>}

\* create_basic_auth_middleware(username, password)
BasicAuthInit(username, password) ==
    [kind |-> "basic_auth", username |-> username, password |-> password,
     authorization_headers |-> authorization_headers(username, password),
     op |-> "new", headers |-> <<>>, passed |-> <<>>]

\* basic_auth_middleware is called with the headers of a request: the headers
\* it calls its handler with
BasicAuth ==
    /\ \E headers \in SeqsUpTo(RequestHeaders, MaxHeaders) :
          mw' = [mw EXCEPT !.op = "called", !.headers = headers,
                           !.passed = basic_auth_headers(
                                          headers, mw.authorization_headers)]
    /\ UNCHANGED <<engine, loop, net, peer, h11, h2, task, req, client,
                   sendLog, recvLog>>

\* ------------------------------------------------------------ compression
\* src/bareclient/middlewares/compression.py.  A body is None or an
\* iterable of chunks; an adapter wraps it in a transducer, and the model
\* keeps the transducers a body is wrapped in, innermost first.  The value
\* of a content-encoding header is the list of the encodings it names.

DEFAULT_DECOMPRESSORS == {"gzip", "deflate"}
DEFAULT_COMPRESSORS == {"gzip", "deflate"}

\* the encodings of the headers: the two known ones and one that is not
Encodings == {"gzip", "deflate", "br"}

\* the header lists of the messages: no content-encoding, or one that lists
\* up to MaxEncodings encodings
EncodingHeaders ==
    {<<>>, << <<"content-type", <<>>>> >>}
    \cup {<< <<"content-encoding", es>> >> :
            es \in SeqsUpTo(Encodings, MaxEncodings)}

NoBody == [present |-> FALSE, transducers |-> <<>>]
Body == [present |-> TRUE, transducers |-> <<>>]

\* bareutils header.content_encoding: the encodings of the first
\* content-encoding header, None (here the empty list) without one
RECURSIVE content_encoding(_)
content_encoding(headers) ==
    IF headers = <<>> THEN <<>>
    ELSE IF Head(headers)[1] = "content-encoding" THEN Head(headers)[2]
    ELSE content_encoding(Tail(headers))

\* compression_writer_adapter(body, compressor()) and
\* compression_reader_adapter(body, decompressor())
adapter(body, kind, encoding) ==
    [body EXCEPT !.transducers =
        Append(@, [kind |-> kind, encoding |-> encoding])]

\* `for encoding in content_encoding: if encoding in known: return ...`:
\* the adapter of the first known encoding, the body itself without one
RECURSIVE first_known(_, _, _, _)
first_known(encodings, known, kind, body) ==
    IF encodings = <<>> THEN body
    ELSE IF Head(encodings) \in known
         THEN adapter(body, kind, Head(encodings))
         ELSE first_known(Tail(encodings), known, kind, body)

\* _make_body_writer, lines 41-51
make_compression_writer(headers, body) ==
    IF content_encoding(headers) # <<>> /\ body.present
    THEN first_known(content_encoding(headers), DEFAULT_COMPRESSORS,
                     "compress", body)
    ELSE body

\* _make_body_reader, lines 54-64
make_compression_reader(headers, body) ==
    IF content_encoding(headers) # <<>> /\ body.present
    THEN first_known(content_encoding(headers), DEFAULT_DECOMPRESSORS,
                     "decompress", body)
    ELSE body

CompressionInit ==
    [kind |-> "compression", op |-> "new",
     headers |-> <<>>, content |-> NoBody, passed |-> NoBody,
     response_headers |-> <<>>, response_body |-> NoBody,
     returned |-> NoBody]

\* compression_middleware, lines 76-77: the content it calls its handler with
CompressionRequest ==
    /\ mw.op = "new"
    /\ \E headers \in EncodingHeaders, content \in {NoBody, Body} :
          mw' = [mw EXCEPT !.op = "request", !.headers = headers,
                           !.content = content,
                           !.passed = make_compression_writer(headers,
                                                              content)]
    /\ UNCHANGED <<engine, loop, net, peer, h11, h2, task, req, client,
                   sendLog, recvLog>>

\* compression_middleware, lines 77-79: the handler returns a response, the
\* body of the response the middleware returns
CompressionResponse ==
    /\ mw.op = "request"
    /\ \E headers \in EncodingHeaders, body \in {NoBody, Body} :
          mw' = [mw EXCEPT !.op = "response", !.response_headers = headers,
                           !.response_body = body,
                           !.returned = make_compression_reader(headers,
                                                                body)]
    /\ UNCHANGED <<engine, loop, net, peer, h11, h2, task, req, client,
                   sendLog, recvLog>>

\* ------------------------------------------------------ header enrichment
\* _enrich_headers, acgi/requester.py lines 38-52.  Header names are strings,
\* header values sequences of ASCII codes.

\* constants.py: b'bareClient/...', here "b"
USER_AGENT == <<98>>

\* bareutils header.find(name, headers): the value of the first header of
\* that name, None without one; an Optional is a list of no or one value
RECURSIVE find(_, _)
find(name, headers) ==
    IF headers = <<>> THEN <<>>
    ELSE IF Head(headers)[1] = name THEN <<Head(headers)[2]>>
    ELSE find(name, Tail(headers))

\* the truth value Python gives an Optional[bytes]: None and b'' are false
truthy(value) == value # <<>> /\ value[1] # <<>>

\* lines 40-51: the header is appended if the test of its line says so
appended(headers, test, hdr) == IF test THEN Append(headers, hdr) ELSE headers

enrich_headers(request) ==
    LET headers == request.headers
        with_agent ==
            appended(headers, ~truthy(find("user-agent", headers)),
                     <<"user-agent", USER_AGENT>>)
        with_host ==
            appended(with_agent, ~truthy(find("host", with_agent)),
                     <<"host", request.host>>)
    IN  appended(with_host,
                 /\ request.body
                 /\ ~(\/ truthy(find("content-length", with_host))
                      \/ truthy(find("transfer-encoding", with_host))),
                 <<"transfer-encoding", <<99>>>>)

\* the headers of the requests to enrich: values "", "x", "1"
EnrichHeaders ==
    {<<"user-agent", <<>>>>, <<"user-agent", <<120>>>>, <<"host", <<120>>>>,
     <<"content-length", <<49>>>>, <<"content-length", <<>>>>,
     <<"transfer-encoding", <<>>>>, <<"accept", <<120>>>>}

EnrichInit ==
    [kind |-> "enrich", op |-> "new",
     request |-> [host |-> <<104>>, headers |-> <<>>, body |-> FALSE],
     once |-> <<>>, twice |-> <<>>]

\* _enrich_headers(request), for a request to host "h" with or without body
Enrich ==
    /\ mw.op = "new"
    /\ \E headers \in SeqsUpTo(EnrichHeaders, MaxHeaders), body \in BOOLEAN :
          LET request == [host |-> <<104>>, headers |-> headers,
                          body |-> body]
          IN  mw' = [mw EXCEPT !.op = "once", !.request = request,
                               !.once = enrich_headers(request)]
    /\ UNCHANGED <<engine, loop, net, peer, h11, h2, task, req, client,
                   sendLog, recvLog>>

\* _enrich_headers of the same request with the enriched headers
EnrichAgain ==
    /\ mw.op = "once"
    /\ mw' = [mw EXCEPT !.op = "twice",
                 !.twice = enrich_headers(
                               [mw.request EXCEPT !.headers = mw.once])]
    /\ UNCHANGED <<engine, loop, net, peer, h11, h2, task, req, client,
                   sendLog, recvLog>>

\* --------------------------------------------------------- asyncio events
\* src/src/bareclient/acgi/asyncio_events.py over asyncio.Event: _value,
\* the futures of the waiting tasks in _waiters, and the wake-ups that
\* fut.set_result has queued with call_soon.  sets counts the calls of set,
\* hist lists the calls of set and the returns of wait in their order.

Waiters == 1..MaxWaiters

WaiterInit ==
    [pc |-> "new", since |-> 0, at |-> 0, by |-> NoMsg, result |-> NoMsg]

EventInit(kind) ==
    [kind |-> kind, ev |-> MessageEventInit, waiters |-> <<>>,
     ready |-> <<>>, sets |-> 0, hist |-> <<>>,
     task |-> [t \in Waiters |-> WaiterInit]]

\* the messages an event is set with
EventMessages ==
    {HttpResponse("1.1", FALSE, NoneStream),
     HttpResponse("1.1", TRUE, NoneStream)}

Without(q, t) == SelectSeq(q, LAMBDA x : x # t)

\* asyncio.Event.set: `if not self._value`, the future of every waiting
\* task that is not done gets its result, which queues the wake-up of the
\* task; message is that of the call that released it (None for set())
released(m, message) ==
    [t \in Waiters |->
        IF m.task[t].pc = "blocked" /\ ~m.ev.set
        THEN [m.task[t] EXCEPT !.pc = "ready", !.by = message,
                               !.at = m.sets + 1]
        ELSE m.task[t]]

event_set(m, message) ==
    [m EXCEPT !.task = released(m, message),
              !.ready = IF m.ev.set THEN @
                        ELSE @ \o SelectSeq(m.waiters,
                                 LAMBDA t : m.task[t].pc = "blocked"),
              !.sets = @ + 1,
              !.hist = Append(@, [op |-> "set", task |-> 0,
                                  message |-> message])]

\* asyncio.Event.wait up to its await: it returns at once when the event
\* is set, and else waits on a new future in _waiters
event_wait(m, t) ==
    IF m.ev.set
    THEN [m EXCEPT !.task[t].pc = "returned", !.task[t].since = m.sets]
    ELSE [m EXCEPT !.task[t].pc = "blocked", !.task[t].since = m.sets,
                   !.waiters = Append(@, t)]

\* asyncio.Event.wait after its await: `finally: self._waiters.remove(fut)`
event_wait_resume(m, t) ==
    [m EXCEPT !.task[t].pc = "returned", !.waiters = Without(@, t),
              !.ready = Tail(@)]

\* Not the code: the message is returned and left in the event.
with_message_kept(m, t) ==
    [m EXCEPT !.task[t].result = m.ev.message,
              !.hist = Append(@, [op |-> "return", task |-> t,
                                  message |-> m.ev.message])]

\* wait_with_message, lines 29-31, once wait has returned
with_message(m, t) ==
    [m EXCEPT !.task[t].result = m.ev.message, !.ev = take_message(m.ev),
              !.hist = Append(@, [op |-> "return", task |-> t,
                                  message |-> m.ev.message])]

\* a task calls MessageEvent.wait_with_message
WaitWithMessage ==
    /\ \E t \in Waiters :
          /\ mw.task[t].pc = "new"
          /\ LET m == event_wait(mw, t)
             IN  mw' = IF m.task[t].pc = "returned"
                       THEN with_message(m, t) ELSE m
    /\ UNCHANGED <<engine, loop, net, peer, h11, h2, task, req, client,
                   sendLog, recvLog>>

\* the event loop runs the wake-up of a task suspended in wait_with_message
WaitWithMessageResume ==
    /\ mw.ready # <<>>
    /\ LET t == Head(mw.ready)
       IN  mw' = with_message(event_wait_resume(mw, t), t)
    /\ UNCHANGED <<engine, loop, net, peer, h11, h2, task, req, client,
                   sendLog, recvLog>>

\* MessageEvent.set_with_message, lines 20-21
SetWithMessage ==
    /\ mw.sets < MaxSets
    /\ \E message \in EventMessages :
          mw' = [event_set(mw, message) EXCEPT
                    !.ev = set_with_message(mw.ev, message)]
    /\ UNCHANGED <<engine, loop, net, peer, h11, h2, task, req, client,
                   sendLog, recvLog>>

\* asyncio.Event.clear
event_clear(ev) == [ev EXCEPT !.set = FALSE]

\* Not the code: the event is set and stays set.
reset_event_stays_set(ev) == [ev EXCEPT !.set = TRUE]

\* ResetEvent.set, lines 38-39, on _value
reset_event_set(ev) == event_clear([ev EXCEPT !.set = TRUE])

\* a task calls ResetEvent.wait
ResetWait ==
    /\ \E t \in Waiters :
          /\ mw.task[t].pc = "new"
          /\ mw' = event_wait(mw, t)
    /\ UNCHANGED <<engine, loop, net, peer, h11, h2, task, req, client,
                   sendLog, recvLog>>

\* the event loop runs the wake-up of a task suspended in ResetEvent.wait
ResetWaitResume ==
    /\ mw.ready # <<>>
    /\ mw' = event_wait_resume(mw, Head(mw.ready))
    /\ UNCHANGED <<engine, loop, net, peer, h11, h2, task, req, client,
                   sendLog, recvLog>>

\* ResetEvent.set
ResetSet ==
    /\ mw.sets < MaxSets
    /\ mw' = [event_set(mw, NoMsg) EXCEPT !.ev = reset_event_set(mw.ev)]
    /\ UNCHANGED <<engine, loop, net, peer, h11, h2, task, req, client,
                   sendLog, recvLog>>

\* ------------------------------------------- requesters on one H2 engine
\* Several requesters that share one H2Protocol
\* (src/bareclient/acgi/h2_protocol.py): each sends a Request without body
\* on a stream of its own and calls receive().  The engine has one queue of
\* responses and one list of events (lines 54-59); each request has its own
\* task running _receive_response.

SharedInit ==
    [kind |-> "h2_shared", conn |-> H2ConnInit,
     stream |-> [r \in Requesters |-> NoneStream],
     responses |-> <<>>, h2_events |-> <<>>, wire |-> <<>>,
     tasks |-> [r \in Requesters |-> "none"],
     phase |-> [s \in StreamIds |-> "idle"], sent |-> 0,
     got |-> [r \in Requesters |-> <<>>]]

\* send(Request) by requester r: _send_request, lines 80-114
SharedSendRequest(r) ==
    /\ mw.kind = "h2_shared" /\ mw.stream[r] = NoneStream
    /\ LET sid == mw.conn.next_stream_id
       IN  mw' = [mw EXCEPT
                     !.conn = h2_end_stream(h2_send_headers(@, sid), sid).c,
                     !.stream[r] = sid,
                     !.responses =
                         Append(@, HttpResponseConnection("h2", sid)),
                     !.tasks[r] = "new"]
    /\ UNCHANGED <<engine, loop, net, peer, h11, h2, task, req, client,
                   sendLog, recvLog>>

\* receive() by requester r (lines 77-78: self.responses.get(), whatever
\* the stream), which goes on calling it until it has read a Disconnect
SharedReceive(r) ==
    /\ mw.kind = "h2_shared" /\ mw.stream[r] # NoneStream
    /\ \A k \in 1..Len(mw.got[r]) : mw.got[r][k].type # "http.disconnect"
    /\ mw.responses # <<>>
    /\ LET g == queue_get(mw.responses)
       IN  mw' = [mw EXCEPT !.responses = g.queue,
                            !.got[r] = Append(@, g.item)]
    /\ UNCHANGED <<engine, loop, net, peer, h11, h2, task, req, client,
                   sendLog, recvLog>>

\* the task of requester r: _receive_event (lines 273-291), which reads the
\* transport when the list of events is empty and pops the first event, and
\* what _receive_response (lines 223-271) does with the event
SharedReceiveResponse(r) ==
    /\ mw.kind = "h2_shared" /\ mw.tasks[r] \in {"new", "body"}
    /\ mw.h2_events # <<>> \/ mw.wire # <<>>
    /\ LET rc == IF mw.h2_events = <<>>
                 THEN h2_receive_data(mw.conn, mw.wire)
                 ELSE [c |-> mw.conn, events |-> mw.h2_events]
           ev == Head(rc.events)
           read == [mw EXCEPT !.conn = rc.c,
                              !.wire = IF mw.h2_events = <<>> THEN <<>> ELSE @,
                              !.h2_events = Tail(rc.events)]
           put(m, msg) == [m EXCEPT !.responses = Append(@, msg)]
       IN  CASE mw.tasks[r] = "new" /\ ev.e = "ResponseReceived" ->
                  mw' = [put(read, response_message(ev))
                            EXCEPT !.tasks[r] = "body"]
             [] mw.tasks[r] = "body" /\ ev.e = "DataReceived" ->
                  mw' = put(read, response_body_message(ev))
             [] mw.tasks[r] = "body"
                    /\ ev.e \in {"StreamEnded", "StreamReset"} ->
                  mw' = [put(read, HttpDisconnect(ev.stream_id))
                            EXCEPT !.tasks[r] = "done"]
             [] OTHER -> mw' = read
    /\ UNCHANGED <<engine, loop, net, peer, h11, h2, task, req, client,
                   sendLog, recvLog>>

\* the server answers a stream: HEADERS, then DATA, either with END_STREAM
SharedPeer(s) ==
    /\ mw.kind = "h2_shared"
    /\ s < mw.conn.next_stream_id
    /\ \E end \in BOOLEAN :
          \/ /\ mw.phase[s] = "idle"
             /\ mw' = [mw EXCEPT
                           !.wire = Append(@, Frame("headers", s, 0, 0, end)),
                           !.phase[s] = IF end THEN "ended" ELSE "body"]
          \/ /\ mw.phase[s] = "body" /\ mw.sent < MaxData
             /\ mw' = [mw EXCEPT
                           !.wire = Append(@, Frame("data", s, 1, 0, end)),
                           !.phase[s] = IF end THEN "ended" ELSE "body",
                           !.sent = @ + 1]
    /\ UNCHANGED <<engine, loop, net, peer, h11, h2, task, req, client,
                   sendLog, recvLog>>

\* ------------------------------------------------------- specifications

\* the engines run without any middleware
NoMiddleware == [kind |-> "none"]

InitRequester(bodies, requests) ==
    /\ loop = LoopInit
    /\ net = NetInit
    /\ h11 = H11Init
    /\ h2 = H2Init
    /\ task = [i \in 1..MaxRequests |-> TaskInit]
    /\ \E content \in bodies : req = ReqInit(content, bodies, requests)
    /\ client = "new"
    /\ sendLog = <<>>
    /\ recvLog = <<>>

InitCommon(bodies, requests) ==
    /\ InitRequester(bodies, requests)
    /\ mw = NoMiddleware

InitH11 ==
    /\ engine = "h11"
    /\ peer = PeerInit
    /\ InitCommon(Contents, MaxRequests)

RequesterNext ==
    \/ ClientEnter \/ ProcessRequest \/ Connection \/ SendBody
    \/ ProcessResponse \/ BodyReader \/ BodyReaderMessage \/ Close \/ Closed
    \/ UserAwait \/ Raised \/ LoopSelect \/ LoopRun

NextH11 ==
    \/ RequesterNext \/ NextRequest
    \/ H11SendRequest \/ H11SendRequestBody \/ H11Disconnect
    \/ H11ReceiveConnection \/ H11ReceiveResponseEvent
    \/ H11ReceiveBodyEvent \/ H11ReceiveBodyRead
    \/ \E i \in 1..MaxRequests : H11ReceiveResponse(i)
    \/ \E i \in 1..MaxRequests : H11ReceiveResponseRead(i)
    \/ H11PeerHead \/ H11PeerData \/ H11PeerEnd \/ PeerClose

SpecH11 == InitH11 /\ [][NextH11]_vars

InitH2 ==
    /\ engine = "h2"
    /\ peer = H2PeerInit
    /\ InitCommon(Contents, 1)

NextH2 ==
    \/ RequesterNext
    \/ H2SendRequest \/ H2SendRequestBody \/ H2SendData
    \/ H2Disconnect \/ H2ResponseClosed \/ H2Receive
    \/ \E i \in 1..MaxRequests : H2ReceiveResponse(i)
    \/ \E i \in 1..MaxRequests : H2ReceiveResponseRead(i)
    \/ \E s \in StreamIds : H2PeerHeaders(s)
    \/ \E s \in StreamIds : H2PeerData(s)
    \/ \E s \in StreamIds : H2PeerTrailers(s)
    \/ \E s \in StreamIds : H2PeerReset(s)
    \/ \E s \in StreamIds \cup {NoneStream} : H2PeerWindowUpdate(s)
    \/ PeerClose

SpecH2 == InitH2 /\ [][NextH2]_vars

\* Either engine, as negotiated for the connection.
InitEngines == InitH11 \/ InitH2

NextEngines == NextH11 \/ NextH2

SpecEngines == InitEngines /\ [][NextEngines]_vars

\* Several requests over one H2 engine, each on a stream of its own, made
\* without a body.
InitH2Streams ==
    /\ engine = "h2"
    /\ peer = H2PeerInit
    /\ InitCommon({NoContent}, MaxRequests)

NextH2Streams ==
    \/ RequesterNext \/ NextRequest
    \/ H2SendRequest \/ H2Disconnect \/ H2ResponseClosed \/ H2Receive
    \/ \E i \in 1..MaxRequests : H2ReceiveResponse(i)
    \/ \E i \in 1..MaxRequests : H2ReceiveResponseRead(i)
    \/ \E s \in StreamIds : H2PeerHeaders(s)
    \/ \E s \in StreamIds : H2PeerData(s)
    \/ \E s \in StreamIds : H2PeerTrailers(s)
    \/ \E s \in StreamIds : H2PeerReset(s)
    \/ PeerClose

SpecH2Streams == InitH2Streams /\ [][NextH2Streams]_vars


\* Flow control of a request body over one H2 stream: a body within the
\* credit of the initial window, and bodies whose first chunk, carried by
\* the Request, or whose later chunk is longer than that credit.
FlowContents == {<<1>>, <<2>>, <<2, 1>>, <<1, 2>>}

InitH2Flow ==
    /\ engine = "h2"
    /\ peer = H2PeerInit
    /\ InitCommon(FlowContents, 1)

\* the steps of the program: the event loop and the coroutines it runs
ProgramH2 ==
    \/ RequesterNext
    \/ H2SendRequest \/ H2SendRequestBody \/ H2SendData
    \/ H2Disconnect \/ H2ResponseClosed \/ H2Receive
    \/ \E i \in 1..MaxRequests : H2ReceiveResponse(i)
    \/ \E i \in 1..MaxRequests : H2ReceiveResponseRead(i)

\* The loop of asyncio keeps running what is ready (run_until_complete), so
\* a step of the program that stays possible is taken; the peer is free to
\* send or not.
SpecH2Flow == InitH2Flow /\ [][NextH2]_vars /\ WF_vars(ProgramH2)


\* Several requests over one H2 engine while the peer gives credit back:
\* requests without a body and requests whose second chunk has to wait for
\* credit.
WindowContents == {NoContent, <<1, 1>>}

InitH2Windows ==
    /\ engine = "h2"
    /\ peer = H2PeerInit
    /\ InitCommon(WindowContents, MaxRequests)

\* the peer answers each request and gives credit back; it neither resets a
\* stream nor closes the connection, and the user awaits nothing of its own
NextH2Windows ==
    \/ ClientEnter \/ ProcessRequest \/ Connection \/ SendBody
    \/ ProcessResponse \/ BodyReader \/ BodyReaderMessage \/ Close \/ Closed
    \/ Raised \/ LoopSelect \/ LoopRun \/ NextRequest
    \/ H2SendRequest \/ H2SendRequestBody \/ H2SendData
    \/ H2Disconnect \/ H2ResponseClosed \/ H2Receive
    \/ \E i \in 1..MaxRequests : H2ReceiveResponse(i)
    \/ \E i \in 1..MaxRequests : H2ReceiveResponseRead(i)
    \/ \E s \in StreamIds : H2PeerHeaders(s)
    \/ \E s \in StreamIds : H2PeerData(s)
    \/ \E s \in StreamIds \cup {NoneStream} : H2PeerWindowUpdate(s)

SpecH2Windows == InitH2Windows /\ [][NextH2Windows]_vars


\* Requests without a body over one H2 engine whose peer may terminate the
\* connection with GOAWAY.
InitH2GoAway ==
    /\ engine = "h2"
    /\ peer = H2PeerInit
    /\ InitCommon({NoContent}, MaxRequests)

NextH2GoAway ==
    \/ ClientEnter \/ ProcessRequest \/ Connection \/ SendBody
    \/ ProcessResponse \/ BodyReader \/ BodyReaderMessage \/ Close \/ Closed
    \/ Raised \/ LoopSelect \/ LoopRun \/ NextRequest
    \/ H2SendRequest \/ H2Disconnect \/ H2ResponseClosed \/ H2Receive
    \/ \E i \in 1..MaxRequests : H2ReceiveResponse(i)
    \/ \E i \in 1..MaxRequests : H2ReceiveResponseRead(i)
    \/ \E s \in StreamIds : H2PeerHeaders(s)
    \/ \E s \in StreamIds : H2PeerData(s)
    \/ H2PeerGoAway \/ PeerClose

SpecH2GoAway == InitH2GoAway /\ [][NextH2GoAway]_vars

\* establish_tunnel over a connection to a proxy
InitTunnel ==
    /\ engine = "h11"
    /\ peer = ProxyInit
    /\ InitCommon({NoContent}, 1)

NextTunnel ==
    \/ TunnelRequest \/ TunnelStartTls \/ TunnelProtocol
    \/ H11SendRequest \/ H11ReceiveConnection
    \/ \E i \in 1..MaxRequests : H11ReceiveResponse(i)
    \/ \E i \in 1..MaxRequests : H11ReceiveResponseRead(i)
    \/ ProxyHead \/ H11PeerData \/ H11PeerEnd \/ PeerClose
    \/ LoopSelect \/ LoopRun

SpecTunnel == InitTunnel /\ [][NextTunnel]_vars

\* the engine of a specification about the middlewares alone: idle
EngineIdle ==
    /\ engine = "h11"
    /\ peer = PeerInit
    /\ loop = LoopInit
    /\ net = NetInit
    /\ h11 = H11Init
    /\ h2 = H2Init
    /\ task = [i \in 1..MaxRequests |-> TaskInit]
    /\ req = ReqInit(NoContent, {NoContent}, 1)
    /\ client = "new"
    /\ sendLog = <<>>
    /\ recvLog = <<>>

\* the session middleware over the responses and requests of a session
InitSession == EngineIdle /\ mw = SessionInit

NextSession == Extract \/ Gather

SpecSession == InitSession /\ [][NextSession]_vars

\* the basic authorization middleware over the requests made with it
InitBasicAuth ==
    /\ EngineIdle
    /\ \E username \in Usernames, password \in Passwords :
          mw = BasicAuthInit(username, password)

NextBasicAuth == BasicAuth

SpecBasicAuth == InitBasicAuth /\ [][NextBasicAuth]_vars

\* the compression middleware over a request and its response
InitCompression == EngineIdle /\ mw = CompressionInit

NextCompression == CompressionRequest \/ CompressionResponse

SpecCompression == InitCompression /\ [][NextCompression]_vars

\* header enrichment applied to a request, and again to its result
InitEnrich == EngineIdle /\ mw = EnrichInit

NextEnrich == Enrich \/ EnrichAgain

SpecEnrich == InitEnrich /\ [][NextEnrich]_vars

\* tasks that wait on one MessageEvent and the calls that set it
InitMessageEvent == EngineIdle /\ mw = EventInit("message_event")

NextMessageEvent ==
    WaitWithMessage \/ WaitWithMessageResume \/ SetWithMessage

SpecMessageEvent == InitMessageEvent /\ [][NextMessageEvent]_vars

\* tasks that wait on one ResetEvent and the calls that set it
InitResetEvent == EngineIdle /\ mw = EventInit("reset_event")

NextResetEvent == ResetWait \/ ResetWaitResume \/ ResetSet

SpecResetEvent == InitResetEvent /\ [][NextResetEvent]_vars

\* a request processed with a list of middlewares over the HTTP/1.1 engine
InitChain ==
    /\ engine = "h11"
    /\ peer = PeerInit
    /\ InitRequester(Contents, 1)
    /\ \E handlers \in SeqsUpTo(Middlewares, MaxMiddlewares) :
          mw = ChainInit(handlers)

NextChain ==
    \/ ChainProcess \/ MiddlewareNext \/ MiddlewareReturn
    \/ ProcessRequest \/ Connection \/ SendBody
    \/ ProcessResponse \/ BodyReader \/ BodyReaderMessage \/ Close \/ Closed
    \/ UserAwait \/ Raised \/ LoopSelect \/ LoopRun
    \/ H11SendRequest \/ H11SendRequestBody \/ H11Disconnect
    \/ H11ReceiveConnection \/ H11ReceiveResponseEvent
    \/ H11ReceiveBodyEvent \/ H11ReceiveBodyRead
    \/ \E i \in 1..MaxRequests : H11ReceiveResponse(i)
    \/ \E i \in 1..MaxRequests : H11ReceiveResponseRead(i)
    \/ H11PeerHead \/ H11PeerData \/ H11PeerEnd \/ PeerClose

SpecChain == InitChain /\ [][NextChain]_vars

\* Several requesters on one H2 engine.
InitH2Shared == EngineIdle /\ mw = SharedInit

NextH2Shared ==
    \/ \E r \in Requesters : SharedSendRequest(r)
    \/ \E r \in Requesters : SharedReceive(r)
    \/ \E r \in Requesters : SharedReceiveResponse(r)
    \/ \E s \in StreamIds : SharedPeer(s)

SpecH2Shared == InitH2Shared /\ [][NextH2Shared]_vars

\* Two concurrent requests on one session.
InitConcurrent == EngineIdle /\ mw = ConcurrentInit

NextConcurrent ==
    \/ \E r \in Requesters : ConcurrentCall(r)
    \/ \E r \in Requesters : ConcurrentReturn(r)
    \/ ConcurrentTick

SpecConcurrent == InitConcurrent /\ [][NextConcurrent]_vars

\* Requests and responses of one HttpSession.
InitHttpSession ==
    EngineIdle /\ \E headers \in DefaultHeaders : mw = HttpSessionInit(headers)

NextHttpSession ==
    HttpSessionRequest \/ HttpSessionResponse \/ HttpSessionTick

SpecHttpSession == InitHttpSession /\ [][NextHttpSession]_vars

\* The response heads of an H2 connection.
InitH2Response == EngineIdle /\ mw = H2ResponseInit

NextH2Response == H2ResponseReceived

SpecH2Response == InitH2Response /\ [][NextH2Response]_vars

\* The heads of H11 responses and the Responses made of them.
InitH11Head == EngineIdle /\ mw = H11HeadInit

NextH11Head == H11HeadReceived \/ H11HeadProcessed \/ H11HeadBodyRead

SpecH11Head == InitH11Head /\ [][NextH11Head]_vars

\* The two body writers over every content of the bounds.
InitWriters == EngineIdle /\ \E content \in AllContents : mw = WritersInit(content)

NextWriters == WriterNext \/ HandlerWriterNext

SpecWriters == InitWriters /\ [][NextWriters]_vars

\* ------------------------------------------------------------------ claims

\* the messages of a log, without the request numbers
Messages(log) == [i \in 1..Len(log) |-> log[i].msg]

IsBody(m) == m.type = "http.response.body"

\* C1: on an H11 engine the messages receive() returns for a request are
\* one ResponseConnection (http_version h11, no stream id), then one
\* Response, then only ResponseBody frames or a Disconnect.
C1_H11ReceiveOrder ==
    engine = "h11" =>
        \A i \in 1..Len(recvLog) :
            CASE i = 1 -> recvLog[i].msg = HttpResponseConnection("h11", NoneStream)
              [] i = 2 -> recvLog[i].msg.type = "http.response"
              [] OTHER -> recvLog[i].msg.type \in
                              {"http.response.body", "http.disconnect"}

\* C1 happens: a request on an H11 engine has received its connection
\* message, its response and two body frames.
C1_Witness ==
    /\ engine = "h11"
    /\ Len(recvLog) = 4
    /\ IsBody(recvLog[3].msg) /\ IsBody(recvLog[4].msg)

\* the messages receive() returned for stream s, in the order returned
StreamLog(s) == SelectSeq(h2.delivered, LAMBDA m : m.stream_id = s)

\* the place of a message type in the order of a stream
Rank(m) ==
    CASE m.type = "http.response.connection" -> 1
      [] m.type = "http.response" -> 2
      [] m.type = "http.response.body" -> 3
      [] m.type = "http.disconnect" -> 4

Succeeded == client = "entered" /\ req.pc = "in_scope" /\ ~req.more_body

\* what the H2 engine has put on its queue: what receive() returned and
\* what is still queued
Emitted == h2.delivered \o h2.responses

\* C3: when a request has succeeded, what the engine emitted for it is one
\* ResponseConnection, then one Response, then only ResponseBody frames, the
\* last of which and no other has more_body false; and of the body frames
\* an H2 engine queues, none but the last has more_body false.
C3_ResponseShape ==
    /\ Succeeded =>
          /\ Len(recvLog) >= 2
          /\ recvLog[1].msg.type = "http.response.connection"
          /\ recvLog[2].msg.type = "http.response"
          /\ \A i \in 3..Len(recvLog) :
                /\ IsBody(recvLog[i].msg)
                /\ recvLog[i].msg.more_body = (i < Len(recvLog))
    /\ engine = "h2" =>
          \A i, j \in 1..Len(Emitted) :
              (i < j /\ IsBody(Emitted[i]) /\ IsBody(Emitted[j])
                     /\ Emitted[i].stream_id = Emitted[j].stream_id)
                  => Emitted[i].more_body

\* C3 happens: a request on an H2 engine has succeeded with two body frames.
C3_Witness ==
    /\ engine = "h2" /\ Succeeded
    /\ Len(recvLog) = 4

\* the (chunk, more_body) pairs handed to the engine for the current request
Pairs ==
    LET sent == SelectSeq(Messages(sendLog),
                          LAMBDA m : m.type \in {"http.request",
                                                 "http.request.body"})
    IN  [i \in 1..Len(sent) |-> <<sent[i].body, sent[i].more_body>>]

\* the pairs a body of chunks c1..cN is to be sent as
ExpectedPairs(content) ==
    [i \in 1..Len(content) |-> <<content[i], i < Len(content)>>]

IsPrefix(a, b) == Len(a) <= Len(b) /\ a = SubSeq(b, 1, Len(a))

\* C4: for a body of N >= 1 chunks the pairs handed to the engine are, in
\* order, (c1,true) ... (cN,false): at any time a prefix of them, and all N
\* of them, no more, when the body adapter is exhausted.
C4_BodyPairs ==
    (req.content # NoContent /\ Len(req.content) >= 1) =>
        /\ IsPrefix(Pairs, ExpectedPairs(req.content))
        /\ req.gen.st = "done" => Pairs = ExpectedPairs(req.content)

\* C4 happens: a body of two chunks has been sent and the adapter is
\* exhausted.
C4_Witness ==
    /\ req.content # NoContent /\ Len(req.content) = 2
    /\ req.gen.st = "done"
    /\ Len(Pairs) = 2

\* C5: for a request without a body the one pair handed to the engine is
\* (null, false), in the http.request message, and no http.request.body
\* message is sent.
C5_NoBody ==
    req.content = NoContent =>
        /\ IsPrefix(Pairs, << <<NoneBody, FALSE>> >>)
        /\ \A i \in 1..Len(sendLog) :
              sendLog[i].msg.type # "http.request.body"
        /\ Len(sendLog) >= 1 => sendLog[1].msg = HttpRequest(NoneBody, FALSE)
        /\ req.gen.st = "done" => Len(Pairs) = 1

\* C5 happens: a request without a body has been sent and the adapter is
\* exhausted.
C5_Witness ==
    /\ req.content = NoContent
    /\ req.gen.st = "done"
    /\ Len(sendLog) >= 1

\* the sum of f over the streams
RECURSIVE SumOver(_, _)
SumOver(f, S) ==
    IF S = {} THEN 0
    ELSE LET s == CHOOSE x \in S : TRUE IN f[s] + SumOver(f, S \ {s})

\* C6: on every H2 stream the DATA bytes passed to send_data never exceed
\* the credit the peer has granted on the stream, nor do the bytes of all
\* streams exceed the credit of the connection, and no DATA frame is longer
\* than the least of the remaining body, the stream's credit, the
\* connection's credit and max_outbound_frame_size.
C6_FlowControl ==
    engine = "h2" =>
        /\ \A s \in StreamIds : h2.tx[s] <= h2.conn.credit[s]
        /\ SumOver(h2.tx, StreamIds) <= h2.conn.credit[NoneStream]
        /\ h2.last.n <= h2.last.limit

\* C6 happens: a stream has used up its initial window, waited, and sent
\* again on credit the peer granted.
C6_Witness ==
    /\ engine = "h2"
    /\ h2.tx[1] > InitialWindow
    /\ h2.conn.credit[1] > InitialWindow

\* C7: the lengths the H2 engine has acknowledged add up to the
\* flow-controlled lengths of the DATA events it has passed on as body
\* frames.
C7_Acknowledged == engine = "h2" => h2.acked = h2.delivered_length

\* C7 happens: body frames have been passed on, one of padded DATA, and the
\* stream has been closed by the caller.
C7_Witness ==
    /\ engine = "h2"
    /\ h2.delivered_length >= 3
    /\ client = "closed"

\* C8: once the engine has been handed the Disconnect of a caller leaving
\* the scope with the response body not exhausted, the transport is closed
\* and no spawned task is pending: the engine does not wait for the peer.
C8_CloseWithoutWaiting ==
    (/\ client = "exiting" /\ req.more_body /\ req.err = "none"
     /\ req.pc # "send_disconnect") =>
        /\ ~net.open
        /\ \A i \in 1..MaxRequests : task[i].pc \in {"none", "done"}

\* C9: when entering the scope has failed the transport is released.
C9_FailedEntryReleased == client = "failed" => ~net.open

\* the message receive() returned last
LastRead == recvLog[Len(recvLog)].msg

\* the Requester raises error e where it stands
Raises(e) == req'.pc = "raised" /\ req'.err = e /\ req'.at = req.pc

\* C10: the first message read for the response is a Response, which
\* enters the scope, or the Requester raises there: IOError (server
\* disconnected) for a Disconnect, ValueError for anything else; while the
\* body is iterated, inside the scope, a body frame is yielded, a Disconnect
\* raises IOError at that step and anything else raises ValueError.
C10_ResponseErrors ==
    [][/\ (req.pc = "process_response" /\ req' # req) =>
              /\ Len(recvLog) = 2
              /\ CASE LastRead.type = "http.response" ->
                          req'.pc = "in_scope" /\ client' = "entered"
                   [] LastRead.type = "http.disconnect" ->
                          Raises("IOError") /\ client' = client
                   [] OTHER ->
                          Raises("ValueError") /\ client' = client
       /\ (req.pc = "body_reader" /\ req' # req) =>
              /\ Len(recvLog) >= 3
              /\ client = "entered" /\ client' = client
              /\ CASE LastRead.type = "http.response.body" ->
                          /\ req'.pc = "in_scope"
                          /\ req'.yielded = req.yielded + 1
                   [] LastRead.type = "http.disconnect" -> Raises("IOError")
                   [] OTHER -> Raises("ValueError")
      ]_vars

\* C10 happens: a Disconnect was read while iterating the body, after a
\* body frame, and IOError was raised at that step.
C10_Witness ==
    /\ Len(recvLog) >= 4
    /\ LastRead.type = "http.disconnect"
    /\ req.yielded >= 1
    /\ client = "entered"
    /\ req.pc = "raised" /\ req.at = "body_reader" /\ req.err = "IOError"

\* the proxy's answer has been received as a Response with a 2xx status
TunnelAccepted ==
    /\ peer.status \in 200..299
    /\ \E i \in 1..Len(recvLog) : recvLog[i].msg.type = "http.response"

\* C11: establishing a tunnel, start_tls is called only after a Response
\* with a status in [200,300) has been received from the proxy; with any
\* other status establish_tunnel fails without starting TLS.
C11_TlsOnlyAfter2xx ==
    (client \in {"tunnelling", "tunnelled"} /\ net.tls) =>
        TunnelAccepted

\* the elements of a sequence
Range(q) == {q[i] : i \in 1..Len(q)}

\* the cookie is expired at the time of the last call
Expired(c) == c.has_expires /\ c.expires < mw.now

\* the cookie is one the request of the last gather is to get: its domain
\* and path, when set, match and it is not a secure cookie on another scheme
Applies(c) ==
    /\ c.secure => mw.request.scheme = "https"
    /\ c.domain # <<>> =>
          \E k \in 0..Len(mw.request.domain) :
              SubSeq(mw.request.domain, k + 1, Len(mw.request.domain))
                  = c.domain
    /\ c.path # <<>> =>
          \E k \in 0..Len(mw.request.path) :
              SubSeq(mw.request.path, 1, k) = c.path

\* the cookie header of the last gather carries the cookie
Carries(c) == <<c.name, c.value>> \in Range(mw.header)

Gathered == mw.kind = "session" /\ mw.op = "gather"
Extracted == mw.kind = "session" /\ mw.op = "extract"

\* C12: the cookie header gather returns carries no cached cookie that is
\* secure when the scheme is not https, or whose domain is set and is not
\* the end of the request's domain, or whose path is set and is not the
\* start of the request's path.
C12_GatherExcludes ==
    Gathered => \A c \in Range(mw.before) : ~Applies(c) => ~Carries(c)

\* C12 happens: a gather carried one cookie and left out another, a secure
\* one, over http.
C12_Witness ==
    /\ Gathered /\ ~mw.raised
    /\ mw.request.scheme = "http"
    /\ \E c, d \in Range(mw.before) :
          /\ Carries(c)
          /\ d.secure /\ ~Carries(d)
          /\ d.domain = <<>> /\ d.path = <<>> /\ d.name # c.name

\* C13: a cookie in the cache that is not expired at the time of the
\* request and applies to it is carried by the header gather returns, when
\* no other such cookie has its name.
C13_GatherIncludes ==
    Gathered =>
        \A c \in Range(mw.before) :
            (/\ ~Expired(c) /\ Applies(c)
             /\ \A d \in Range(mw.before) :
                   (d # c /\ d.name = c.name) => (Expired(d) \/ ~Applies(d)))
                => Carries(c)

\* c is to be preferred to d: the longer domain, then the longer path, then
\* the earlier creation time
Preferred(c, d) ==
    \/ Len(c.domain) > Len(d.domain)
    \/ /\ Len(c.domain) = Len(d.domain)
       /\ \/ Len(c.path) > Len(d.path)
          \/ /\ Len(c.path) = Len(d.path)
             /\ c.creation_time < d.creation_time

\* C14: of the applicable cookies of one name the header of a gather that
\* returned carries one only, the one preferred to all the others.
C14_GatherPrefers ==
    (Gathered /\ ~mw.raised) =>
        \A c, d \in Range(mw.before) :
            (/\ c # d /\ c.name = d.name
             /\ ~Expired(c) /\ Applies(c) /\ ~Expired(d) /\ Applies(d)
             /\ Preferred(c, d))
                => ~Carries(d)

\* C15: gather on a cache with an expired entry returns: the expired
\* entries are gone from the cache, and the cookies the header carries have
\* last_access_time = now.
C15_GatherEvicts ==
    (Gathered /\ \E c \in Range(mw.before) : Expired(c)) =>
        /\ ~mw.raised
        /\ \A c \in Range(mw.cookies) : ~Expired(c)
        /\ \A c \in Range(mw.cookies) :
              <<c.name, c.value>> \in Range(mw.header) =>
                  c.has_last_access_time /\ c.last_access_time = mw.now

\* the new cookies of the last extract that are not expired on arrival, as
\* they are to be stored
Arriving ==
    {[c EXCEPT !.has_expires = c.has_expires \/ c.has_max_age,
               !.expires = IF c.has_expires THEN c.expires
                           ELSE IF c.has_max_age THEN mw.now + c.max_age
                           ELSE 0] :
        c \in {x \in Range(mw.header_cookies) :
                  ~(x.has_expires /\ x.expires < mw.now)
                  /\ ~(~x.has_expires /\ x.has_max_age
                       /\ mw.now + x.max_age < mw.now)}}

SameKey(c, d) == c.name = d.name /\ c.domain = d.domain /\ c.path = d.path

SameCookie(c, d) ==
    /\ SameKey(c, d) /\ c.value = d.value
    /\ c.has_expires = d.has_expires /\ c.expires = d.expires

\* C16: after extract at time now the cache has no entry that expires
\* before now and one entry at most for a key; a new cookie that is not
\* expired is in the cache, with expires = now + max_age if it came with
\* max_age and no expires, unless a later new cookie has its key; and an
\* entry that was in the cache before is kept only if it has not expired
\* and no new cookie has its key.
C16_ExtractCache ==
    Extracted =>
        /\ \A c \in Range(mw.cookies) : ~Expired(c)
        /\ \A i, j \in 1..Len(mw.cookies) :
              SameKey(mw.cookies[i], mw.cookies[j]) => i = j
        /\ \A a \in Arriving :
              \E c \in Range(mw.cookies) :
                  /\ SameKey(a, c)
                  /\ \E b \in Arriving : SameCookie(b, c)
                  /\ c.value >= a.value
                  /\ c.creation_time = mw.now
        /\ \A c \in Range(mw.cookies) :
              \/ \E a \in Arriving : SameCookie(a, c)
              \/ /\ c \in Range(mw.before)
                 /\ \A a \in Arriving : ~SameKey(a, c)

\* C16 happens: an extract dropped an entry of the cache that had expired,
\* replaced another and stored a cookie that came with max_age.
C16_Witness ==
    /\ Extracted
    /\ \E c \in Range(mw.before) : Expired(c)
    /\ \E c \in Range(mw.cookies) :
          /\ c.has_max_age /\ c.expires = mw.now + c.max_age
          /\ \E d \in Range(mw.before) : SameKey(c, d) /\ d.value # c.value

\* C17: for a list of middlewares m1..mn, processing a request enters m1
\* first, the call a middleware makes of its handler enters the next
\* middleware, that of mn runs the Requester's _process, the response
\* returns through the middlewares entered in reverse order, and the engine
\* is sent no request unless every middleware has called its handler.
C17_ChainOrder ==
    mw.pc # "new" =>
        LET n == Len(mw.chain)
        IN  /\ n >= 1 => (mw.entered # <<>> /\ mw.entered[1] = 1)
            /\ \A k \in 1..Len(mw.entered) : mw.entered[k] = k
            /\ \A i \in Range(mw.invoked) :
                  IF i < n THEN i + 1 \in Range(mw.entered) ELSE mw.core
            /\ \A k \in 1..Len(mw.returned) :
                  mw.returned[k] = Len(mw.entered) - k + 1
            /\ (\E e \in Range(sendLog) : e.msg.type = "http.request")
                  => Range(mw.invoked) = 1..n

\* C18: the basic authorization middleware calls its handler with
\* `authorization: Basic base64(username:password)` in front of the request
\* headers when they hold no authorization header, and with the request
\* headers unchanged when they hold one; the headers it passes on never
\* hold two authorization headers.
C18_BasicAuthorization ==
    (mw.kind = "basic_auth" /\ mw.op = "called") =>
        LET present == \E i \in 1..Len(mw.headers) :
                           mw.headers[i][1] = "authorization"
            expected == <<"authorization",
                          <<66, 97, 115, 105, 99, 32>>
                          \o b64encode(mw.username \o <<58>> \o mw.password)>>
        IN  /\ ~present => mw.passed = <<expected>> \o mw.headers
            /\ present => mw.passed = mw.headers
            /\ Cardinality({i \in 1..Len(mw.passed) :
                              mw.passed[i][1] = "authorization"}) <= 1

\* the transducers of one kind for the known encodings of a list, in the
\* order of the list
RECURSIVE Layers(_, _, _)
Layers(encodings, known, kind) ==
    IF encodings = <<>> THEN <<>>
    ELSE (IF Head(encodings) \in known
          THEN <<[kind |-> kind, encoding |-> Head(encodings)]>>
          ELSE <<>>)
         \o Layers(Tail(encodings), known, kind)

Reversed(q) == [i \in 1..Len(q) |-> q[Len(q) + 1 - i]]

\* C19: the compression middleware wraps the request body in one compressor
\* for every known encoding its content-encoding lists, in the order listed,
\* and the response body in one decompressor for every known encoding
\* listed, in the reverse order; a body that is None, or whose headers list
\* no known encoding, is passed through as it is.
C19_CompressionLayers ==
    /\ mw.op \in {"request", "response"} =>
          mw.passed =
              IF mw.content.present
              THEN [mw.content EXCEPT !.transducers =
                       Layers(content_encoding(mw.headers),
                              DEFAULT_COMPRESSORS, "compress")]
              ELSE mw.content
    /\ mw.op = "response" =>
          mw.returned =
              IF mw.response_body.present
              THEN [mw.response_body EXCEPT !.transducers =
                       Reversed(Layers(content_encoding(mw.response_headers),
                                       DEFAULT_DECOMPRESSORS, "decompress"))]
              ELSE mw.response_body

\* C20: header enrichment is idempotent: enriching a request whose headers
\* are the result of an enrichment returns the same sequence of headers.
C20_EnrichIdempotent ==
    (mw.kind = "enrich" /\ mw.op = "twice") => mw.twice = mw.once

\* the request of an enrichment has a header of that name
HasHeader(name) ==
    \E i \in 1..Len(mw.request.headers) : mw.request.headers[i][1] = name

\* the enrichment added a transfer-encoding header to the request's headers
AddedTransferEncoding ==
    \E i \in (Len(mw.request.headers) + 1)..Len(mw.once) :
        mw.once[i][1] = "transfer-encoding"

\* C21: enrichment adds `transfer-encoding: chunked` exactly when the
\* request has a body and its headers hold neither a content-length nor a
\* transfer-encoding; never when a content-length is present or the request
\* has no body.
C21_ChunkedExactlyWhen ==
    (mw.kind = "enrich" /\ mw.op = "once") =>
        (AddedTransferEncoding <=>
            (/\ mw.request.body
             /\ ~HasHeader("content-length")
             /\ ~HasHeader("transfer-encoding")))

\* C22: the tunnel request is CONNECT <hostname>:<port> with the header
\* host: <hostname>, where the port is the explicit port of the target when
\* it has one, for http and for https, and otherwise 80 for http and 443
\* for https.
C22_ConnectTarget ==
    mw.kind = "connect" =>
        LET target == mw.connection_details
            port == IF target.port # <<>> THEN target.port[1]
                    ELSE IF target.scheme = "http" THEN 80 ELSE 443
        IN  /\ mw.http_request.method = "CONNECT"
            /\ mw.http_request.path = <<target.hostname, port>>
            /\ mw.http_request.headers = << <<"host", target.hostname>> >>

\* a task that has waited on the event: it found the event not set
Blocked(t) == mw.task[t].pc \in {"blocked", "ready"} \/ mw.task[t].at > 0

LastSet(k) ==
    LET S == {j \in 1..(k - 1) : mw.hist[j].op = "set"}
    IN  IF S = {} THEN 0 ELSE CHOOSE j \in S : \A i \in S : i <= j

C24_ResetEventNotifies ==
    mw.kind = "reset_event" =>
        /\ ~mw.ev.set
        /\ \A t \in Waiters :
              /\ mw.task[t].pc = "blocked" => mw.task[t].since = mw.sets
              /\ mw.task[t].pc \in {"ready", "returned"}
                    => mw.task[t].at = mw.task[t].since + 1

\* two tasks were released together by the first set, and a wait started
\* after it was released by the second
C24_Witness ==
    /\ mw.kind = "reset_event"
    /\ \E t, u, v \in Waiters :
          /\ t # u
          /\ mw.task[t].pc = "returned" /\ mw.task[t].at = 1
          /\ mw.task[u].pc = "returned" /\ mw.task[u].at = 1
          /\ mw.task[v].pc = "returned" /\ mw.task[v].since = 1
          /\ mw.task[v].at = 2

\* the frames the H2 engine has written that carry END_STREAM on stream s
EndFrames(s) ==
    {i \in 1..Len(net.out) : net.out[i].sid = s /\ net.out[i].end}

\* the engine is sending a message: send has not returned
Sending ==
    req.pc \in {"send_request", "send_request_body", "send_data"}

\* the last message of the request body has been sent: send has returned
\* for a Request or RequestBody with more_body false
FinalSent ==
    /\ ~Sending /\ req.err = "none"
    /\ \E k \in 1..Len(sendLog) :
          /\ sendLog[k].msg.type \in {"http.request", "http.request.body"}
          /\ ~sendLog[k].msg.more_body

\* C25: for every H2 request the engine ends its side of the stream exactly
\* once: END_STREAM is on the last DATA frame of the message whose more_body
\* is false (or on the frame of end_stream for a request without body) and
\* on no earlier frame, also when that last chunk is empty or is sent in
\* several DATA frames.
C25_EndStreamOnce ==
    engine = "h2" =>
        \A s \in StreamIds :
            /\ Cardinality(EndFrames(s)) <= 1
            /\ \A i \in EndFrames(s) :
                  \A j \in (i + 1)..Len(net.out) : net.out[j].sid # s
            /\ (req.pc = "send_data" /\ req.dsid = s /\ EndFrames(s) # {})
                  => req.data = 0
            /\ (FinalSent /\ h2.conn.next_stream_id = s + 2)
                  => EndFrames(s) # {}

\* the request is suspended in _send_data, on the stream's window-update event
WaitingForCredit == engine = "h2" /\ req.wait = "window"

\* the peer has sent more credit than the engine has used, on the stream the
\* send is for and on the connection
CreditGivenBack ==
    /\ req.dsid \in StreamIds
    /\ InitialWindow + peer.granted[req.dsid] > h2.tx[req.dsid]
    /\ InitialWindow + peer.granted[NoneStream] > SumOver(h2.tx, StreamIds)

\* C26: an H2 body send that is suspended for want of credit is resumed once
\* the peer has given credit with WINDOW_UPDATE, be it the send of a later
\* chunk or of the chunk the Request message carries: send does not stay
\* suspended.
C26_SendResumes == (WaitingForCredit /\ CreditGivenBack) ~> ~WaitingForCredit

\* C27: when the H2 engine reads a WINDOW_UPDATE of stream 0 it sets the
\* window-update event of every stream it has one for, and a send waiting
\* for credit on any stream is woken; when it reads a WINDOW_UPDATE of
\* another stream it sets the event of that stream only, and a send waiting
\* on a different stream is not woken.
C27_WindowUpdateSignals ==
    [][(engine = "h2" /\ Len(h2'.signals) > Len(h2.signals)) =>
          LET new == SubSeq(h2'.signals, Len(h2.signals) + 1,
                            Len(h2'.signals))
          IN  /\ \A k \in 1..Len(new) :
                    /\ new[k].keys = h2.window_update_event
                    /\ new[k].stream_id = NoneStream
                          => new[k].set = h2.window_update_event
                    /\ new[k].stream_id # NoneStream
                          => new[k].set = {new[k].stream_id}
              /\ WaitingForCredit =>
                    /\ req.dsid \in h2.window_update_event
                    /\ req'.wait = "none"
                          <=> \E k \in 1..Len(new) :
                                 new[k].stream_id \in {NoneStream, req.dsid}]_vars

\* C27 happens: with two streams that have an event, a WINDOW_UPDATE of
\* stream 0 and one of a single stream have been read.
C27_Witness ==
    /\ engine = "h2"
    /\ \E j, k \in 1..Len(h2.signals) :
          /\ h2.signals[j].stream_id = NoneStream
          /\ Cardinality(h2.signals[j].set) = 2
          /\ h2.signals[k].stream_id # NoneStream
          /\ Cardinality(h2.signals[k].keys) = 2
          /\ Cardinality(h2.signals[k].set) = 1

\* the peer has closed the connection and the task spawned by _send_request
\* has ended with an exception, without a response head: ConnectionError
\* when h11 reports ConnectionClosed, RemoteProtocolError when h11 refuses
\* the close
ClosedBeforeHead ==
    /\ net.eof
    /\ \E i \in 1..MaxRequests :
          /\ task[i].pc = "done"
          /\ task[i].err \in {"ConnectionError", "RemoteProtocolError"}

\* C28: on H11, when the peer has closed the connection before a response
\* head was received, a caller suspended in receive() has been woken (its
\* wake-up is scheduled or it runs) so that the error is raised to it: it is
\* not left waiting for the response event.
C28_CloseBeforeHeadRaised ==
    (engine = "h11" /\ ClosedBeforeHead /\ req.wait = "response_event") =>
        \E k \in 1..Len(loop.ready) : loop.ready[k] = ReqHandle

\* the response task reads the transport again after it has read the end of
\* file
ReadingDeadTransport(i) == task[i].pc = "spin"

\* the response task has ended on the lost connection
LostConnection(i) ==
    task[i].pc = "done" /\ task[i].err = "ConnectionResetError"

\* C29: on H2, once the end of file of the connection has been read the
\* receive loop does not go on reading the dead transport, and a receive()
\* that is pending when the task ends on the lost connection has been woken
\* (its wake-up is scheduled) to return or raise: it is not left waiting on
\* the queue of responses.
C29_DeadTransportSurfaced ==
    engine = "h2" =>
        \A i \in 1..MaxRequests :
            /\ ~ReadingDeadTransport(i)
            /\ (LostConnection(i) /\ req.wait = "queue") =>
                   \E k \in 1..Len(loop.ready) : loop.ready[k] = ReqHandle

\* the engine has read GOAWAY and its task has taken the ConnectionTerminated
\* event off the list of events
GoAwayHandled ==
    /\ h2.conn.closed
    /\ \A k \in 1..Len(h2.h2_events) :
          h2.h2_events[k].e # "ConnectionTerminated"

\* C30: once the H2 engine has handled a GOAWAY, a receive() pending on an
\* active stream has been woken (its wake-up is scheduled) for the
\* ConnectionError, and a send of a Request after the GOAWAY raises without
\* opening a stream.
C30_GoAwaySurfaced ==
    [][engine = "h2" =>
          /\ (GoAwayHandled' /\ req'.wait = "queue") =>
                 \E k \in 1..Len(loop'.ready) : loop'.ready[k] = ReqHandle
          /\ (h2.conn.closed /\ req.pc = "send_request" /\ req' # req) =>
                 /\ req'.pc = "raised"
                 /\ h2'.conn.next_stream_id = h2.conn.next_stream_id]_vars

\* the types of the messages a requester has received, in order
Types(msgs) == [k \in 1..Len(msgs) |-> msgs[k].type]

\* ResponseConnection, Response, then body frames (a Disconnect ends them)
InStreamOrder(types) ==
    \A k \in 1..Len(types) :
        types[k] = CASE k = 1 -> "http.response.connection"
                     [] k = 2 -> "http.response"
                     [] OTHER -> types[k]
        /\ (k > 2 => types[k] \in {"http.response.body", "http.disconnect"})

\* C31: with several requests in flight on one H2 engine, every message a
\* requester's receive() has returned carries the id of that requester's own
\* stream, and each requester has received ResponseConnection, Response and
\* body frames in this order.
C31_OwnStreamInOrder ==
    mw.kind = "h2_shared" =>
        \A r \in Requesters :
            /\ \A k \in 1..Len(mw.got[r]) :
                   mw.got[r][k].stream_id = mw.stream[r]
            /\ InStreamOrder(Types(mw.got[r]))

\* the response on stream s has been consumed: receive() has returned its
\* last message, the Response or the body frame with more_body false
Consumed(s) ==
    \E k \in 1..Len(h2.delivered) :
        /\ h2.delivered[k].stream_id = s
        /\ h2.delivered[k].type \in {"http.response", "http.response.body"}
        /\ ~h2.delivered[k].more_body

\* the stream of the n-th request of a connection
StreamOf(n) == 2 * n - 1

\* C32: for a second request sent on the same H2 engine after the first
\* response was consumed, the first message received is the
\* ResponseConnection of the new stream, and the RequestBody messages sent
\* carry the new stream's id.
C32_SecondRequestOwnStream ==
    (engine = "h2" /\ req.no = 2 /\ Consumed(StreamOf(1))) =>
        /\ recvLog # <<>> =>
               recvLog[1].msg = HttpResponseConnection("h2", StreamOf(2))
        /\ \A k \in 1..Len(sendLog) :
               sendLog[k].msg.type = "http.request.body"
                   => sendLog[k].msg.stream_id = StreamOf(2)

\* the request/response cycle on the H11 engine is complete and the response
\* allowed keep-alive
CycleComplete ==
    h11.st.our = "DONE" /\ h11.st.their = "DONE" /\ h11.st.keep_alive

\* C33: an H11 engine has at most one request in flight: a send(Request)
\* after the first writes a request line only when the previous cycle is
\* complete and the prior response allowed keep-alive; otherwise the send
\* raises and nothing is written to the transport.
C33_OneInFlight ==
    [][(engine = "h11" /\ req.pc = "send_request" /\ req' # req) =>
          IF ~h11.is_initialised \/ CycleComplete
          THEN /\ net'.requests = net.requests + 1
               /\ req'.pc # "raised"
          ELSE /\ req'.pc = "raised"
               /\ net' = net]_vars

\* C33 happens: a second request was written on a kept-alive connection, or
\* a second send was refused.
C33_Witness ==
    /\ engine = "h11" /\ req.no = 2
    /\ \/ net.requests = 2
       \/ req.pc = "raised" /\ req.at = "send_request" /\ net.requests = 1

\* receive() is in _receive_body_event: it drives the parser and reads the
\* transport
ReadingBody == req.pc \in {"receive_body_event", "receive_body_read"}

\* the background task of request i is in _receive_response
ReadingHead(i) == task[i].pc \in {"new", "read"}

\* C34: on an H11 engine receive() consumes body events only when no
\* background response reader is at work, on the first request cycle and on
\* later ones: at most one coroutine reads the transport and drives the
\* parser.
C34_OneReader ==
    (engine = "h11" /\ ReadingBody) =>
        \A i \in 1..MaxRequests : ~ReadingHead(i)

\* the concurrent requests have all completed
BothDone == \A r \in Requesters : mw.pc[r] = "done"

\* the cookie a response set has not expired by the time of either request
Unexpired(c, r) ==
    LET e == with_expires(c, mw.now[r])
    IN  ~e.has_expires \/ \A q \in Requesters : e.expires > mw.now[q]

\* the responses' cookies that have the key of c
SetForKey(c) ==
    {<<q, k>> \in Requesters \X (1..MaxCookies) :
        /\ k <= Len(mw.set[q])
        /\ cookie_key(mw.set[q][k]) = cookie_key(c)}

CookieHeaders(headers) == {i \in 1..Len(headers) : headers[i][1] = "cookie"}

\* C36: a request made through a session carries at most one cookie header,
\* the one gathered from the jar for this request, and making requests
\* leaves the default headers of the session as they were given.
C36_OneCookieHeader ==
    mw.kind = "httpsession" =>
        /\ mw.headers = mw.given
        /\ mw.op = "request" =>
              /\ Cardinality(CookieHeaders(mw.sent)) <= 1
              /\ \A i \in CookieHeaders(mw.sent) : mw.sent[i][2] = mw.header

\* the receive loop of request i ended on a WindowUpdated of a stream that
\* has no window-update entry
LoopFailedOnWindowUpdate(i) == task[i].pc = "done" /\ task[i].err = "KeyError"

\* the Disconnect raised what the receive loop ended with, the transport
\* left open
DisconnectFailed ==
    /\ req.pc = "raised" /\ req.at \in {"send_disconnect", "response_closed"}
    /\ req.err = "KeyError" /\ net.open

\* C37: a WINDOW_UPDATE for a stream whose window-update entry a Disconnect
\* has removed, or that never had one, fails neither the H2 receive loop
\* nor the Disconnect in progress, which completes and closes the transport.
C37_LateWindowUpdateHarmless ==
    engine = "h2" =>
        /\ \A i \in 1..MaxRequests : ~LoopFailedOnWindowUpdate(i)
        /\ ~(DisconnectFailed /\ LoopFailedOnWindowUpdate(h2.response_task))

\* the headers of an event that are not pseudo-headers, in their order
Fields(headers) == SelectSeq(headers, LAMBDA h : h[1][1] # ":")

\* C38: the Response emitted for an H2 ResponseReceived event has the value
\* of the :status pseudo-header as its status, the received headers without
\* the pseudo-headers and in the received order as its headers, and
\* more_body true exactly when the event did not end the stream.
C38_ResponseHead ==
    (mw.kind = "h2_response" /\ mw.op = "received") =>
        /\ \E k \in 1..Len(mw.event.headers) :
              /\ mw.event.headers[k][1] = StatusName
              /\ LET d == mw.event.headers[k][2]
                 IN  mw.message.status_code
                         = 100 * digit(d[1]) + 10 * digit(d[2]) + digit(d[3])
        /\ mw.message.headers = Fields(mw.event.headers)
        /\ mw.message.more_body = ~mw.event.stream_ended
        /\ mw.message.stream_id = mw.event.stream_id

\* C38 happens: a 404 whose headers ended the stream, with two fields of
\* the same name.
C38_Witness ==
    /\ mw.kind = "h2_response" /\ mw.op = "received"
    /\ mw.message.status_code = 404 /\ ~mw.message.more_body
    /\ mw.event.stream_ended
    /\ Len(mw.message.headers) = 2
    /\ mw.message.headers[1][1] = mw.message.headers[2][1]
    /\ mw.message.headers[1][2] # mw.message.headers[2][2]

\* a content-length that is not zero: one of its digits is not 0
NonZeroLength(headers) ==
    \E k \in Named(headers, "content-length") :
        \E j \in 1..Len(headers[k][2]) : headers[k][2][j] # "0"

ChunkedEncoding(headers) ==
    \E k \in Named(headers, "transfer-encoding") : headers[k][2] = Chunked

\* C39: on H11 the response has more_body true exactly when its headers
\* have a content-length that is not zero or transfer-encoding: chunked;
\* when more_body is false the Response has no body and the Requester
\* calls receive() for no body frame: the receive of the head is its only
\* one.
C39_MoreBodyFromHeaders ==
    (mw.kind = "h11_head" /\ mw.op # "init") =>
        /\ mw.message.more_body <=>
               (NonZeroLength(mw.message.headers)
                    \/ ChunkedEncoding(mw.message.headers))
        /\ (mw.op # "received" /\ ~mw.message.more_body) =>
               /\ mw.response.body = "None"
               /\ mw.receives = 1

\* C39 happens: a 204 without either header and a response with
\* content-length: 00 are given to the user without a body.
C39_Witness ==
    /\ mw.kind = "h11_head" /\ mw.op = "response"
    /\ mw.response.body = "None" /\ mw.receives = 1
    /\ \/ mw.response.status_code = 204 /\ mw.response.headers = <<>>
       \/ mw.response.headers = <<<<"content-length", <<"0", "0">>>>>>

\* C40: for every body, the body writer of RequestHandlerInstance yields
\* the same (chunk, more_body) pairs in the same order as the body writer of
\* the Requester and then finishes without raising, a body of exactly one
\* chunk included.
C40_WritersAgree ==
    (mw.kind = "writers" /\ mw.stopped /\ mw.hstopped) =>
        /\ mw.hyielded = mw.yielded
        /\ mw.hgen.err = "none"
====
